---------------------------- MODULE Spec2Model ----------------------------
(***************************************************************************)
(* A model of the Genx blockchain core: the ledger (core/src/state.rs),    *)
(* the chain (core/src/chain.rs, block.rs, transaction.rs), the finality   *)
(* manager (consensus/src/finality.rs), the validator registry             *)
(* (consensus/src/validator.rs), the two elections                         *)
(* (consensus/src/pos.rs, consensus/src/lib.rs), the reward schedule and   *)
(* block production (consensus/src/lib.rs) and the production loop of the  *)
(* node with its mutexes (node/src/lib.rs).                                *)
(*                                                                         *)
(* Hashes.  calculate_hash is SHA-256 over the JSON serialisation.  It is  *)
(* modelled as a collision-free function: the hash of a value is a tuple   *)
(* holding the hashed fields, so two hashes are equal exactly when the     *)
(* hashed fields are equal.  The all-zero hash [0u8; 32] is the empty      *)
(* tuple.  The header fields version (always 1), timestamp and signature   *)
(* (always None) and the transaction fields timestamp, data and signature  *)
(* take part in nothing but the hash and are left out.                     *)
(*                                                                         *)
(* Amounts are kept far below 2^64, so no u64 addition of the ledger       *)
(* overflows in the runs of SpecChain; the arithmetic of u64 at its full   *)
(* width is that of SpecLedger64, and the supply of the genesis block of   *)
(* core/src/genesis.rs that of SpecSupply.                                 *)
(***************************************************************************)
EXTENDS Integers, Sequences, FiniteSets, TLC

VARIABLES
    blocks,                   \* Blockchain.blocks: height -> Block
    latest_hash,              \* Blockchain.latest_hash
    latest_height,            \* Blockchain.latest_height
    balances,                 \* State.balances: address -> u64 (a partial map)
    total_supply,             \* State.total_supply
    chain_result,             \* what the last Blockchain call returned
    checkpoints,              \* FinalityManager.checkpoints: height -> Checkpoint
    latest_finalized_height,  \* FinalityManager.latest_finalized_height
    finality_call,            \* the last FinalityManager call: [op, result]
    params,                   \* ConsensusParams: [min_stake, validator_set_size]
    validators,               \* ValidatorManager.validators: a Vec<Validator>
    registry_call,            \* the last ValidatorManager call: [op, result, value, active]
    validator_stakes,         \* State.validator_stakes: address -> u64 (a partial map)
    pos_active_validators,    \* PoSConsensus.active_validators
    active_validators,        \* ConsensusEngine.active_validators
    election,                 \* the last election: [op, result, validator]
    pending_transactions,     \* ConsensusEngine.pending_transactions: a Vec<Transaction>
    last_block_time,          \* ConsensusEngine.last_block_time, in seconds
    now,                      \* the clock Instant::now() reads, in seconds
    production,               \* the last try_produce_block: [op, result, block]
    loop_pc,                  \* where the production loop of the node stands
    submitted,                \* the transactions add_transaction accepted so far
    returned,                 \* the transactions of the blocks try_produce_block returned so far
    reward_call,              \* the last calculate_block_reward: [height, engine, pos]
    mutex_holder,             \* mutex -> the thread that holds it, or NoThread
    thread_state,             \* thread -> [path, pc]: the call it runs and its position
    node_state,               \* Node.state: a NodeState
    ledger64                  \* a State in u64 and the last apply_transaction on it

chainVars == <<blocks, latest_hash, latest_height, balances, total_supply, chain_result>>
finalityVars == <<checkpoints, latest_finalized_height, finality_call>>
registryVars == <<validators, registry_call>>
electionVars == <<validator_stakes, pos_active_validators, active_validators, election>>
productionVars == <<pending_transactions, last_block_time, now, production, loop_pc,
                    submitted, returned>>
lockVars == <<mutex_holder, thread_state>>
otherVars == <<productionVars, reward_call, lockVars, node_state, ledger64>>
consensusVars == <<params, validators, registry_call,
                   validator_stakes, pos_active_validators, active_validators, election,
                   otherVars>>
vars == <<blocks, latest_hash, latest_height, balances, total_supply, chain_result,
          checkpoints, latest_finalized_height, finality_call,
          params, validators, registry_call,
          validator_stakes, pos_active_validators, active_validators, election,
          pending_transactions, last_block_time, now, production, loop_pc,
          submitted, returned, reward_call, mutex_holder, thread_state, node_state, ledger64>>

---------------------------------------------------------------------------
(* Bounds of the model. *)

\* The greatest header height of a block handed to add_block.
MaxHeight == 2
\* The greatest number of transactions of a block handed to add_block.
MaxTxs == 2
\* add_block is not called with a block whose coinbases would take
\* total_supply above this.
MaxSupply == 6
\* ConsensusParams.checkpoint_interval (100 by default), scaled down.
CheckpointInterval == 2
\* The greatest height handed to add_checkpoint_vote and create_checkpoint.
MaxCheckpointHeight == 3
\* The greatest stake handed to the validator registry and to
\* State::update_validator_stake.
MaxStake == 2
\* The greatest height handed to PoSConsensus::select_validator.
MaxElectionHeight == 2
\* ConsensusParams.block_time, in seconds (5 by default), scaled down.
BlockTime == 2
\* The clock does not run past this.
MaxTime == 4
\* max_transactions of try_produce_block (1000), scaled down.
max_transactions == 2
\* The reward schedule is asked for heights of the halving periods 0..MaxHalvings.
MaxHalvings == 65
\* The number of transactions applied to the ledger in u64.
MaxApplied == 3

---------------------------------------------------------------------------
(* Transactions: core/src/transaction.rs *)

COINBASE == "COINBASE"
ZeroHash == <<>>
BadHash == <<"bad">>

\* Transaction::calculate_hash: the hash of every field but id and signature.
calculate_hash_tx(tx) == <<tx.sender, tx.recipient, tx.amount, tx.fee>>

\* Transaction::new: the id is the hash of the other fields.
Transaction_new(sender, recipient, amount, fee) ==
    [id |-> <<sender, recipient, amount, fee>>,
     sender |-> sender, recipient |-> recipient, amount |-> amount, fee |-> fee]

\* Transaction::new_coinbase
new_coinbase(recipient, reward) == Transaction_new(COINBASE, recipient, reward, 0)

\* Transaction::validate: "ok" or the reason of the InvalidTransaction error.
Transaction_validate(tx) ==
    IF tx.amount = 0 THEN "amount"
    ELSE IF calculate_hash_tx(tx) # tx.id THEN "id"
    ELSE "ok"

---------------------------------------------------------------------------
(* Blocks: core/src/block.rs *)

\* Block::calculate_merkle_root: the zero hash of no transactions, else the
\* hash of the transaction sequence (order-sensitive).
calculate_merkle_root(txs) == IF txs = <<>> THEN ZeroHash ELSE <<"merkle", txs>>

\* A block whose header names the zero hash as its predecessor.
Block_new_zero_prev_hash(height, prev_hash, txs, validator) ==
    [header |-> [height |-> height, prev_hash |-> ZeroHash,
                 merkle_root |-> calculate_merkle_root(txs), validator |-> validator],
     transactions |-> txs]

\* Block::new
Block_new(height, prev_hash, txs, validator) ==
    [header |-> [height |-> height, prev_hash |-> prev_hash,
                 merkle_root |-> calculate_merkle_root(txs), validator |-> validator],
     transactions |-> txs]

\* Block::genesis
Block_genesis(txs) == Block_new(0, ZeroHash, txs, "Genesis")

\* Block::hash: the hash of the header.
Block_hash(b) ==
    <<b.header.height, b.header.prev_hash, b.header.merkle_root, b.header.validator>>

RECURSIVE validate_txs(_)
\* The loop of Block::validate: the first transaction that fails decides.
validate_txs(txs) ==
    IF txs = <<>> THEN "ok"
    ELSE IF Transaction_validate(Head(txs)) # "ok" THEN Transaction_validate(Head(txs))
    ELSE validate_txs(Tail(txs))

\* Block::validate: "ok", "merkle" (InvalidBlock) or a transaction's reason.
Block_validate(b) ==
    IF calculate_merkle_root(b.transactions) # b.header.merkle_root THEN "merkle"
    ELSE validate_txs(b.transactions)

---------------------------------------------------------------------------
(* The ledger: core/src/state.rs.  A State value is a record               *)
(* [balances, total_supply]; balances is a partial map, as the HashMap.    *)

\* State::new
State_new == [balances |-> <<>>, total_supply |-> 0]

\* State::get_balance
get_balance(st, address) ==
    IF address \in DOMAIN st.balances THEN st.balances[address] ELSE 0

\* *balances.entry(address).or_insert(0) += delta (delta may be negative)
entry_add(bal, address, delta) ==
    [k \in DOMAIN bal \cup {address} |->
        IF k = address
        THEN (IF address \in DOMAIN bal THEN bal[address] ELSE 0) + delta
        ELSE bal[k]]

\* State::apply_transaction: [ok, st]; on an error st is the state as the
\* call left it.
apply_transaction(st, tx) ==
    IF tx.sender = COINBASE
    THEN [ok |-> TRUE,
          st |-> [balances |-> entry_add(st.balances, tx.recipient, tx.amount),
                  total_supply |-> st.total_supply + tx.amount]]
    ELSE IF get_balance(st, tx.sender) < tx.amount + tx.fee
    THEN [ok |-> FALSE, st |-> st]
    ELSE [ok |-> TRUE,
          st |-> [balances |->
                      entry_add(entry_add(st.balances, tx.sender, 0 - (tx.amount + tx.fee)),
                                tx.recipient, tx.amount),
                  total_supply |-> st.total_supply]]

RECURSIVE apply_txs(_, _)
\* The loop of State::apply_block on &mut self: the transactions are applied
\* in place, one by one, and the first error returns at once.
apply_txs(st, txs) ==
    IF txs = <<>> THEN [ok |-> TRUE, st |-> st]
    ELSE LET r == apply_transaction(st, Head(txs))
         IN  IF r.ok THEN apply_txs(r.st, Tail(txs)) ELSE r

\* State::apply_block
apply_block(st, b) == apply_txs(st, b.transactions)

---------------------------------------------------------------------------
(* The chain: core/src/chain.rs.  A chain value is a record                *)
(* [blocks, latest_hash, latest_height, st].                               *)

Ok == [err |-> "none", msg |-> "ok"]
Err(e, m) == [err |-> e, msg |-> m]

\* Blockchain::new: [result, chain]
Blockchain_new(genesis_block) ==
    LET v == Block_validate(genesis_block)
        a == apply_block(State_new, genesis_block)
    IN  IF v = "merkle" THEN [result |-> Err("InvalidBlock", "merkle")]
        ELSE IF v # "ok" THEN [result |-> Err("InvalidTransaction", v)]
        ELSE IF ~a.ok THEN [result |-> Err("InvalidTransaction", "balance")]
        ELSE [result |-> Ok,
              chain |-> [blocks |-> (0 :> genesis_block),
                         latest_hash |-> Block_hash(genesis_block),
                         latest_height |-> 0,
                         st |-> a.st]]

\* add_block that applies the block to the ledger before it compares the
\* height and prev_hash.
add_block_applies_first(c, block) ==
    LET v == Block_validate(block)
        a == apply_block(c.st, block)
        applied == [c EXCEPT !.st = a.st]
    IN  IF v = "merkle" THEN [result |-> Err("InvalidBlock", "merkle"), chain |-> c]
        ELSE IF v # "ok" THEN [result |-> Err("InvalidTransaction", v), chain |-> c]
        ELSE IF ~a.ok
        THEN [result |-> Err("InvalidTransaction", "balance"), chain |-> applied]
        ELSE IF block.header.height # c.latest_height + 1
        THEN [result |-> Err("InvalidBlock", "height"), chain |-> applied]
        ELSE IF block.header.prev_hash # c.latest_hash
        THEN [result |-> Err("InvalidBlock", "prev_hash"), chain |-> applied]
        ELSE [result |-> Ok,
              chain |-> [blocks |-> [h \in DOMAIN c.blocks \cup {block.header.height} |->
                                        IF h = block.header.height THEN block
                                        ELSE c.blocks[h]],
                         latest_hash |-> Block_hash(block),
                         latest_height |-> block.header.height,
                         st |-> a.st]]

\* add_block without the comparison of prev_hash with latest_hash.
add_block_no_prev_hash_check(c, block) ==
    LET v == Block_validate(block)
        a == apply_block(c.st, block)
    IN  IF v = "merkle" THEN [result |-> Err("InvalidBlock", "merkle"), chain |-> c]
        ELSE IF v # "ok" THEN [result |-> Err("InvalidTransaction", v), chain |-> c]
        ELSE IF block.header.height # c.latest_height + 1
        THEN [result |-> Err("InvalidBlock", "height"), chain |-> c]
        ELSE IF ~a.ok
        THEN [result |-> Err("InvalidTransaction", "balance"),
              chain |-> [c EXCEPT !.st = a.st]]
        ELSE [result |-> Ok,
              chain |-> [blocks |-> [h \in DOMAIN c.blocks \cup {block.header.height} |->
                                        IF h = block.header.height THEN block
                                        ELSE c.blocks[h]],
                         latest_hash |-> Block_hash(block),
                         latest_height |-> block.header.height,
                         st |-> a.st]]

\* add_block that accepts a header height up to latest_height + 1.
add_block_height_at_most(c, block) ==
    LET v == Block_validate(block)
        a == apply_block(c.st, block)
    IN  IF v = "merkle" THEN [result |-> Err("InvalidBlock", "merkle"), chain |-> c]
        ELSE IF v # "ok" THEN [result |-> Err("InvalidTransaction", v), chain |-> c]
        ELSE IF block.header.height > c.latest_height + 1
        THEN [result |-> Err("InvalidBlock", "height"), chain |-> c]
        ELSE IF block.header.prev_hash # c.latest_hash
        THEN [result |-> Err("InvalidBlock", "prev_hash"), chain |-> c]
        ELSE IF ~a.ok
        THEN [result |-> Err("InvalidTransaction", "balance"),
              chain |-> [c EXCEPT !.st = a.st]]
        ELSE [result |-> Ok,
              chain |-> [blocks |-> [h \in DOMAIN c.blocks \cup {block.header.height} |->
                                        IF h = block.header.height THEN block
                                        ELSE c.blocks[h]],
                         latest_hash |-> Block_hash(block),
                         latest_height |-> block.header.height,
                         st |-> a.st]]

\* Blockchain::add_block: [result, chain]; chain is what the call leaves
\* behind, the ledger behind the Arc<Mutex<State>> included.
add_block(c, block) ==
    LET v == Block_validate(block)
        a == apply_block(c.st, block)
    IN  IF v = "merkle" THEN [result |-> Err("InvalidBlock", "merkle"), chain |-> c]
        ELSE IF v # "ok" THEN [result |-> Err("InvalidTransaction", v), chain |-> c]
        ELSE IF block.header.height # c.latest_height + 1
        THEN [result |-> Err("InvalidBlock", "height"), chain |-> c]
        ELSE IF block.header.prev_hash # c.latest_hash
        THEN [result |-> Err("InvalidBlock", "prev_hash"), chain |-> c]
        ELSE IF ~a.ok
        THEN [result |-> Err("InvalidTransaction", "balance"),
              chain |-> [c EXCEPT !.st = a.st]]
        ELSE [result |-> Ok,
              chain |-> [blocks |-> [h \in DOMAIN c.blocks \cup {block.header.height} |->
                                        IF h = block.header.height THEN block
                                        ELSE c.blocks[h]],
                         latest_hash |-> Block_hash(block),
                         latest_height |-> block.header.height,
                         st |-> a.st]]

RECURSIVE replay(_, _, _)
\* The loop of Blockchain::validate_chain from a height on: [result, st].
replay(c, height, st) ==
    IF height > c.latest_height THEN [result |-> Ok, st |-> st]
    ELSE IF height \notin DOMAIN c.blocks
    THEN [result |-> Err("StateError", "Missing block"), st |-> st]
    ELSE LET block == c.blocks[height]
             v == Block_validate(block)
             a == apply_block(st, block)
         IN  IF v = "merkle" THEN [result |-> Err("InvalidBlock", "merkle"), st |-> st]
             ELSE IF v # "ok" THEN [result |-> Err("InvalidTransaction", v), st |-> st]
             ELSE IF ~a.ok THEN [result |-> Err("InvalidTransaction", "balance"), st |-> a.st]
             ELSE replay(c, height + 1, a.st)

\* Blockchain::validate_chain: [result, st]; st is the State the call
\* rebuilds and drops.
validate_chain(c) == replay(c, 0, State_new)

\* The chain held in the variables.
Chain ==
    [blocks |-> blocks, latest_hash |-> latest_hash, latest_height |-> latest_height,
     st |-> [balances |-> balances, total_supply |-> total_supply]]

---------------------------------------------------------------------------
(* Inputs of the chain operations. *)

\* The transactions blocks are built from: a coinbase, a transfer, a transfer
\* of amount 0 and a transfer whose id is not its hash.
TxInputs ==
    { new_coinbase("b", 2),
      Transaction_new("a", "b", 1, 1),
      Transaction_new("a", "b", 0, 1),
      [Transaction_new("b", "a", 1, 0) EXCEPT !.id = BadHash] }

TxSeqs == UNION { [1..n -> TxInputs] : n \in 0..MaxTxs }

RECURSIVE coinbase_sum(_)
\* The sum of the amounts of the coinbase transactions of a sequence.
coinbase_sum(txs) ==
    IF txs = <<>> THEN 0
    ELSE (IF Head(txs).sender = COINBASE THEN Head(txs).amount ELSE 0)
         + coinbase_sum(Tail(txs))

\* The genesis blocks a chain is constructed from.
GenesisInputs == { Block_genesis(<<>>), Block_genesis(<<new_coinbase("a", 2)>>) }

\* The hashes a proposed block may name as its predecessor.
PrevHashInputs ==
    {BadHash} \cup { Block_hash(blocks[h]) : h \in DOMAIN blocks }

\* A block as Block::new builds it, with a header height and a prev_hash of
\* the caller's choice.
BlockInput(h, p, txs) == Block_new(h, p, txs, "a")

\* A block whose header names a merkle root that is not the root of its
\* transactions.
BadRootInput(txs) ==
    [Block_new(latest_height + 1, latest_hash, txs, "a") EXCEPT
        !.header.merkle_root = BadHash]

---------------------------------------------------------------------------
(* Actions of the chain. *)

\* Blockchain::new(genesis_block)
InitChainFrom(g) ==
    LET r == Blockchain_new(g)
    IN  /\ r.result = Ok
        /\ blocks = r.chain.blocks
        /\ latest_hash = r.chain.latest_hash
        /\ latest_height = r.chain.latest_height
        /\ balances = r.chain.st.balances
        /\ total_supply = r.chain.st.total_supply
        /\ chain_result = Ok

InitChain == \E g \in GenesisInputs : InitChainFrom(g)

\* Blockchain::add_block(block)
DoAddBlock(block) ==
    /\ total_supply + coinbase_sum(block.transactions) <= MaxSupply
    /\ LET r == add_block(Chain, block)
       IN  /\ blocks' = r.chain.blocks
           /\ latest_hash' = r.chain.latest_hash
           /\ latest_height' = r.chain.latest_height
           /\ balances' = r.chain.st.balances
           /\ total_supply' = r.chain.st.total_supply
           /\ chain_result' = r.result

AddBlock ==
    /\ \E txs \in TxSeqs :
          \/ \E h \in 0..MaxHeight, p \in PrevHashInputs :
                DoAddBlock(BlockInput(h, p, txs))
          \/ DoAddBlock(BadRootInput(txs))
    /\ UNCHANGED finalityVars
    /\ UNCHANGED consensusVars

---------------------------------------------------------------------------
(* The finality manager: consensus/src/finality.rs.  A manager value is a  *)
(* record [checkpoints, latest_finalized_height]; a checkpoint is a record *)
(* [height, block_hash, votes, finalized].                                 *)

\* HashMap::insert
insert(map, key, value) ==
    [k \in DOMAIN map \cup {key} |-> IF k = key THEN value ELSE map[k]]

\* Validator::new (consensus/src/validator.rs)
Validator_new(address, stake) ==
    [address |-> address, stake |-> stake, last_block_produced |-> 0]

OkBool(b) == [err |-> "none", msg |-> IF b THEN "true" ELSE "false"]

\* FinalityManager::new
FinalityManager_new == [checkpoints |-> <<>>, latest_finalized_height |-> 0]

\* initialize_with_genesis that stores the genesis checkpoint as a pending
\* one, without the synthetic vote.
initialize_with_genesis_pending(fm, genesis_block) ==
    [result |-> Ok,
     fm |-> [checkpoints |->
                 insert(fm.checkpoints, 0,
                        [height |-> 0, block_hash |-> Block_hash(genesis_block),
                         votes |-> {}, finalized |-> FALSE]),
             latest_finalized_height |-> 0]]

\* FinalityManager::initialize_with_genesis
initialize_with_genesis(fm, genesis_block) ==
    [result |-> Ok,
     fm |-> [checkpoints |->
                 insert(fm.checkpoints, 0,
                        [height |-> 0, block_hash |-> Block_hash(genesis_block),
                         votes |-> {"Genesis"}, finalized |-> TRUE]),
             latest_finalized_height |-> 0]]

\* try_finalize_checkpoint that stores the height without comparing it
\* with latest_finalized_height.
try_finalize_checkpoint_no_compare(fm, height) ==
    IF height \notin DOMAIN fm.checkpoints THEN [result |-> OkBool(FALSE), fm |-> fm]
    ELSE IF fm.checkpoints[height].finalized THEN [result |-> OkBool(TRUE), fm |-> fm]
    ELSE IF Cardinality(fm.checkpoints[height].votes) >= 2
    THEN [result |-> OkBool(TRUE),
          fm |-> [checkpoints |-> [fm.checkpoints EXCEPT ![height].finalized = TRUE],
                  latest_finalized_height |-> height]]
    ELSE [result |-> OkBool(FALSE), fm |-> fm]

\* try_finalize_checkpoint that finalizes on one vote.
try_finalize_checkpoint_one_vote(fm, height) ==
    IF height \notin DOMAIN fm.checkpoints THEN [result |-> OkBool(FALSE), fm |-> fm]
    ELSE IF fm.checkpoints[height].finalized THEN [result |-> OkBool(TRUE), fm |-> fm]
    ELSE IF Cardinality(fm.checkpoints[height].votes) >= 1
    THEN [result |-> OkBool(TRUE),
          fm |-> [checkpoints |-> [fm.checkpoints EXCEPT ![height].finalized = TRUE],
                  latest_finalized_height |->
                      IF height > fm.latest_finalized_height THEN height
                      ELSE fm.latest_finalized_height]]
    ELSE [result |-> OkBool(FALSE), fm |-> fm]

\* FinalityManager::try_finalize_checkpoint
try_finalize_checkpoint(fm, height) ==
    IF height \notin DOMAIN fm.checkpoints THEN [result |-> OkBool(FALSE), fm |-> fm]
    ELSE IF fm.checkpoints[height].finalized THEN [result |-> OkBool(TRUE), fm |-> fm]
    ELSE IF Cardinality(fm.checkpoints[height].votes) >= 2
    THEN [result |-> OkBool(TRUE),
          fm |-> [checkpoints |-> [fm.checkpoints EXCEPT ![height].finalized = TRUE],
                  latest_finalized_height |->
                      IF height > fm.latest_finalized_height THEN height
                      ELSE fm.latest_finalized_height]]
    ELSE [result |-> OkBool(FALSE), fm |-> fm]

\* self.checkpoints.entry(height).or_insert_with(...)
entry_or_insert(cps, height, block_hash) ==
    IF height \in DOMAIN cps THEN cps
    ELSE insert(cps, height,
                [height |-> height, block_hash |-> block_hash,
                 votes |-> {}, finalized |-> FALSE])

\* add_checkpoint_vote that records the vote without comparing the hashes.
add_checkpoint_vote_no_hash_check(fm, height, block_hash, validator) ==
    IF height % CheckpointInterval # 0
    THEN [result |-> Err("StateError", "height"), fm |-> fm]
    ELSE LET cps == entry_or_insert(fm.checkpoints, height, block_hash)
         IN  try_finalize_checkpoint(
                 [fm EXCEPT !.checkpoints =
                     [cps EXCEPT ![height].votes = @ \cup {validator.address}]],
                 height)

\* add_checkpoint_vote that records the vote and returns without evaluating
\* the checkpoint.
add_checkpoint_vote_no_evaluate(fm, height, block_hash, validator) ==
    IF height % CheckpointInterval # 0
    THEN [result |-> Err("StateError", "height"), fm |-> fm]
    ELSE LET cps == entry_or_insert(fm.checkpoints, height, block_hash)
         IN  IF cps[height].block_hash # block_hash
             THEN [result |-> Err("StateError", "hash"),
                   fm |-> [fm EXCEPT !.checkpoints = cps]]
             ELSE [result |-> OkBool(FALSE),
                   fm |-> [fm EXCEPT !.checkpoints =
                              [cps EXCEPT ![height].votes = @ \cup {validator.address}]]]

\* FinalityManager::add_checkpoint_vote
add_checkpoint_vote(fm, height, block_hash, validator) ==
    IF height % CheckpointInterval # 0
    THEN [result |-> Err("StateError", "height"), fm |-> fm]
    ELSE LET cps == entry_or_insert(fm.checkpoints, height, block_hash)
         IN  IF cps[height].block_hash # block_hash
             THEN [result |-> Err("StateError", "hash"),
                   fm |-> [fm EXCEPT !.checkpoints = cps]]
             ELSE try_finalize_checkpoint(
                      [fm EXCEPT !.checkpoints =
                          [cps EXCEPT ![height].votes = @ \cup {validator.address}]],
                      height)

\* create_checkpoint without the check of the height.
create_checkpoint_any_height(fm, height, block_hash) ==
    [result |-> Ok,
     fm |-> [fm EXCEPT !.checkpoints =
                insert(@, height,
                       [height |-> height, block_hash |-> block_hash,
                        votes |-> {}, finalized |-> FALSE])]]

\* FinalityManager::create_checkpoint
create_checkpoint(fm, height, block_hash) ==
    IF height % CheckpointInterval # 0
    THEN [result |-> Err("StateError", "height"), fm |-> fm]
    ELSE [result |-> Ok,
          fm |-> [fm EXCEPT !.checkpoints =
                     insert(@, height,
                            [height |-> height, block_hash |-> block_hash,
                             votes |-> {}, finalized |-> FALSE])]]

\* FinalityManager::is_finalized
is_finalized(fm, height) == height <= fm.latest_finalized_height

\* The manager held in the variables.
FM == [checkpoints |-> checkpoints, latest_finalized_height |-> latest_finalized_height]

---------------------------------------------------------------------------
(* Inputs and actions of the finality manager.  As in Node::new and        *)
(* Node::start, the manager is constructed and then initialised with the   *)
(* genesis block before anything else is called on it.                     *)

HeightInputs == 0..MaxCheckpointHeight
OtherHash == <<"other">>
HashInputs == {Block_hash(blocks[0]), OtherHash}
ValidatorInputs == { Validator_new(a, 1) : a \in {"v1", "v2", "v3"} }

InitFinality ==
    /\ checkpoints = FinalityManager_new.checkpoints
    /\ latest_finalized_height = FinalityManager_new.latest_finalized_height
    /\ finality_call = [op |-> "new", result |-> Ok]

Returned(op, r) ==
    /\ checkpoints' = r.fm.checkpoints
    /\ latest_finalized_height' = r.fm.latest_finalized_height
    /\ finality_call' = [op |-> op, result |-> r.result]

\* Node::start: finality.initialize_with_genesis(genesis)
InitializeWithGenesis ==
    /\ finality_call.op = "new"
    /\ Returned("initialize_with_genesis", initialize_with_genesis(FM, blocks[0]))
    /\ UNCHANGED chainVars
    /\ UNCHANGED consensusVars

\* FinalityManager::add_checkpoint_vote(height, block_hash, validator)
AddCheckpointVote ==
    /\ finality_call.op # "new"
    /\ \E height \in HeightInputs, block_hash \in HashInputs, validator \in ValidatorInputs :
          Returned("add_checkpoint_vote",
                   add_checkpoint_vote(FM, height, block_hash, validator))
    /\ UNCHANGED chainVars
    /\ UNCHANGED consensusVars

\* FinalityManager::create_checkpoint(height, block_hash)
CreateCheckpoint ==
    /\ finality_call.op # "new"
    /\ \E height \in HeightInputs, block_hash \in HashInputs :
          Returned("create_checkpoint", create_checkpoint(FM, height, block_hash))
    /\ UNCHANGED chainVars
    /\ UNCHANGED consensusVars

\* Blockchain::add_block of a block without transactions that names the
\* tip as its predecessor, at the tip's height or the next.
AddBlockOnTip ==
    /\ \E h \in {latest_height, latest_height + 1} \cap (0..MaxHeight) :
          DoAddBlock(BlockInput(h, latest_hash, <<>>))
    /\ UNCHANGED finalityVars
    /\ UNCHANGED consensusVars


---------------------------------------------------------------------------
(* The validator registry: consensus/src/validator.rs.  A manager value is *)
(* a record [validators, min_stake, max_validators]; validators is the     *)
(* Vec<Validator> in registration order.  Stakes are kept far below 2^64.  *)
(* A slash percentage is a record [num, den] for the f64 num / den; the    *)
(* percentages used are multiples of 1/2, for which the f64 product with a *)
(* small stake is exact.                                                   *)

\* ValidatorManager::new
ValidatorManager_new(min_stake, max_validators) ==
    [validators |-> <<>>, min_stake |-> min_stake, max_validators |-> max_validators]

\* self.validators.iter().any(|v| v.address == address)
any_address(vs, address) == \E i \in DOMAIN vs : vs[i].address = address

\* self.validators.iter_mut().find(|v| v.address == address): the index of
\* the first validator of that address.
find_address(vs, address) ==
    CHOOSE i \in DOMAIN vs :
        /\ vs[i].address = address
        /\ \A j \in 1..(i - 1) : vs[j].address # address

\* register_validator without the check for a registered address.
register_validator_no_duplicate_check(vm, address, stake) ==
    IF stake < vm.min_stake
    THEN [result |-> Err("StateError", "insufficient stake"), vm |-> vm]
    ELSE [result |-> Ok,
          vm |-> [vm EXCEPT !.validators = Append(@, Validator_new(address, stake))]]

\* ValidatorManager::register_validator: [result, vm]
register_validator(vm, address, stake) ==
    IF any_address(vm.validators, address)
    THEN [result |-> Err("StateError", "already registered"), vm |-> vm]
    ELSE IF stake < vm.min_stake
    THEN [result |-> Err("StateError", "insufficient stake"), vm |-> vm]
    ELSE [result |-> Ok,
          vm |-> [vm EXCEPT !.validators = Append(@, Validator_new(address, stake))]]

\* ValidatorManager::update_validator_stake: [result, vm]
update_validator_stake(vm, address, new_stake) ==
    IF ~any_address(vm.validators, address)
    THEN [result |-> Err("StateError", "not found"), vm |-> vm]
    ELSE [result |-> Ok,
          vm |-> [vm EXCEPT !.validators[find_address(vm.validators, address)].stake =
                                new_stake]]

\* u64::saturating_sub
saturating_sub(a, b) == IF b > a THEN 0 ELSE a - b

\* (stake as f64 * slash_percentage) as u64: the cast truncates.
slash_amount(stake, slash_percentage) ==
    (stake * slash_percentage.num) \div slash_percentage.den

\* ValidatorManager::slash_validator: [result, value, vm]; value is the u64
\* of Ok(value), 0 with an error.
slash_validator(vm, address, slash_percentage) ==
    IF ~any_address(vm.validators, address)
    THEN [result |-> Err("StateError", "not found"), value |-> 0, vm |-> vm]
    ELSE LET i == find_address(vm.validators, address)
             amount == slash_amount(vm.validators[i].stake, slash_percentage)
         IN  [result |-> Ok,
              value |-> amount,
              vm |-> [vm EXCEPT !.validators[i].stake = saturating_sub(@, amount)]]

\* self.validators.retain(|v| v.address != address)
retain_other(vs, address) == SelectSeq(vs, LAMBDA v : v.address # address)

\* ValidatorManager::remove_validator: [result, vm]
remove_validator(vm, address) ==
    LET kept == retain_other(vm.validators, address)
    IN  IF Len(kept) = Len(vm.validators)
        THEN [result |-> Err("StateError", "not found"),
              vm |-> [vm EXCEPT !.validators = kept]]
        ELSE [result |-> Ok, vm |-> [vm EXCEPT !.validators = kept]]

\* The place of v in a sequence sorted by descending stake: behind every
\* element whose stake is at least v's (the sort is stable).
insert_by_stake(sorted, v) ==
    LET k == Cardinality({ i \in DOMAIN sorted : sorted[i].stake >= v.stake })
    IN  SubSeq(sorted, 1, k) \o <<v>> \o SubSeq(sorted, k + 1, Len(sorted))

RECURSIVE sort_by_stake_desc(_)
\* sorted.sort_by(|a, b| b.stake.cmp(&a.stake)): a stable sort by
\* descending stake; elements of equal stake keep their order.
sort_by_stake_desc(vs) ==
    IF vs = <<>> THEN <<>>
    ELSE insert_by_stake(sort_by_stake_desc(SubSeq(vs, 1, Len(vs) - 1)), vs[Len(vs)])

\* Iterator::take(n)
take(vs, n) == SubSeq(vs, 1, IF n < Len(vs) THEN n ELSE Len(vs))

\* get_active_validators without the sort.
get_active_validators_unsorted(vm) ==
    take(SelectSeq(vm.validators, LAMBDA v : v.stake >= vm.min_stake),
         vm.max_validators)

\* ValidatorManager::get_active_validators
get_active_validators(vm) ==
    take(SelectSeq(sort_by_stake_desc(vm.validators), LAMBDA v : v.stake >= vm.min_stake),
         vm.max_validators)

\* The manager held in the variables; it is constructed with the
\* parameters of the consensus.
VM ==
    [validators |-> validators, min_stake |-> params.min_stake,
     max_validators |-> params.validator_set_size]

---------------------------------------------------------------------------
(* Inputs and actions of the validator registry. *)

\* ConsensusParams::default, scaled down: min_stake 1, validator_set_size 2,
\* block_time BlockTime.
DefaultParams == [min_stake |-> 1, validator_set_size |-> 2, block_time |-> BlockTime]

\* The parameters a registry or an engine is constructed with.
ParamsInputs == [min_stake : {0, 1}, validator_set_size : {1, 2}, block_time : {BlockTime}]

AddressInputs == {"v1", "v2", "v3"}
StakeInputs == 0..MaxStake
\* The slash percentages 0.0, 0.5, 1.0 and 1.5.
FractionInputs == { [num |-> n, den |-> 2] : n \in 0..3 }

InitRegistry ==
    /\ validators = ValidatorManager_new(params.min_stake, params.validator_set_size).validators
    /\ registry_call = [op |-> "new", result |-> Ok, value |-> 0, active |-> <<>>]

RegistryReturned(op, r, value) ==
    /\ validators' = r.vm.validators
    /\ registry_call' = [op |-> op, result |-> r.result, value |-> value, active |-> <<>>]
    /\ UNCHANGED params

\* ValidatorManager::register_validator(address, stake)
RegisterValidator ==
    /\ \E address \in AddressInputs, stake \in StakeInputs :
          RegistryReturned("register_validator", register_validator(VM, address, stake), 0)
    /\ UNCHANGED <<chainVars, finalityVars, electionVars, otherVars>>

\* ValidatorManager::update_validator_stake(address, new_stake)
UpdateValidatorStake ==
    /\ \E address \in AddressInputs, new_stake \in StakeInputs :
          RegistryReturned("update_validator_stake",
                           update_validator_stake(VM, address, new_stake), 0)
    /\ UNCHANGED <<chainVars, finalityVars, electionVars, otherVars>>

\* ValidatorManager::slash_validator(address, slash_percentage)
SlashValidator ==
    /\ \E address \in AddressInputs, slash_percentage \in FractionInputs :
          LET r == slash_validator(VM, address, slash_percentage)
          IN  RegistryReturned("slash_validator", r, r.value)
    /\ UNCHANGED <<chainVars, finalityVars, electionVars, otherVars>>

\* ValidatorManager::remove_validator(address)
RemoveValidator ==
    /\ \E address \in AddressInputs :
          RegistryReturned("remove_validator", remove_validator(VM, address), 0)
    /\ UNCHANGED <<chainVars, finalityVars, electionVars, otherVars>>

\* ValidatorManager::get_active_validators(); active is the Vec returned.
GetActiveValidators ==
    /\ registry_call' = [op |-> "get_active_validators", result |-> Ok, value |-> 0,
                         active |-> get_active_validators(VM)]
    /\ UNCHANGED <<params, validators>>
    /\ UNCHANGED <<chainVars, finalityVars, electionVars, otherVars>>

---------------------------------------------------------------------------
(* The elections: PoSConsensus (consensus/src/pos.rs) and ConsensusEngine  *)
(* (consensus/src/lib.rs).  A PoS value is a record [params,               *)
(* active_validators]; so is an engine value (its blockchain is the chain  *)
(* of the variables).  The validator metrics of PoSConsensus take part in  *)
(* no election and are left out.                                           *)
(*                                                                         *)
(* StdRng (ChaCha) is not computed.  rng.gen_range(0..total_stake) yields  *)
(* a value of 0..total_stake - 1 that the seed and the range determine;    *)
(* the elections take it as their argument selection_point, and the        *)
(* actions draw it from gen_range(seed, total_stake).  gen_range panics on *)
(* the empty range 0..0.                                                   *)

\* PoSConsensus::new
PoSConsensus_new(ps) == [params |-> ps, active_validators |-> <<>>]

\* PoSConsensus::update_validator_set(validators)
update_validator_set(pos, vs) ==
    [pos EXCEPT !.active_validators =
        take(SelectSeq(sort_by_stake_desc(vs), LAMBDA v : v.stake >= pos.params.min_stake),
             pos.params.validator_set_size)]

RECURSIVE byte_at(_, _)
\* The i-th byte of n, the least significant first.
byte_at(n, i) == IF i = 1 THEN n % 256 ELSE byte_at(n \div 256, i - 1)

\* u64::to_le_bytes
to_le_bytes(n) == [i \in 1..8 |-> byte_at(n, i)]

\* The seed of PoSConsensus::select_validator: the eight bytes of
\* block_height, then zeros.
seed_array(block_height) ==
    [i \in 1..32 |-> IF i <= 8 THEN to_le_bytes(block_height)[i] ELSE 0]

\* The seed of ConsensusEngine::select_next_validator:
\* StdRng::from_seed([0u8; 32]); the local `seed` is not used.
engine_seed(height) == [i \in 1..32 |-> 0]

\* The values rng.gen_range(0..total_stake) can yield.
gen_range(seed, total_stake) == 0..(total_stake - 1)

RECURSIVE sum_stake(_)
\* active_validators.iter().map(|v| v.stake).sum()
sum_stake(vs) == IF vs = <<>> THEN 0 ELSE Head(vs).stake + sum_stake(Tail(vs))

RECURSIVE walk_from_at_least(_, _, _, _)
\* The loop that returns at cumulative_stake >= selection_point.
walk_from_at_least(active, i, cumulative_stake, selection_point) ==
    IF i > Len(active) THEN 0
    ELSE IF cumulative_stake + active[i].stake >= selection_point THEN i
    ELSE walk_from_at_least(active, i + 1, cumulative_stake + active[i].stake,
                            selection_point)

RECURSIVE walk_from(_, _, _, _)
\* The loop over the active validators from index i on: the index of the
\* first validator at which cumulative_stake exceeds selection_point, or 0
\* when the loop ends without one.
walk_from(active, i, cumulative_stake, selection_point) ==
    IF i > Len(active) THEN 0
    ELSE IF cumulative_stake + active[i].stake > selection_point THEN i
    ELSE walk_from(active, i + 1, cumulative_stake + active[i].stake, selection_point)

\* The walk of both elections: [validator, fallback]; fallback tells that
\* the loop ended and the first validator was returned.
walk(active, selection_point) ==
    LET i == walk_from(active, 1, 0, selection_point)
    IN  IF i = 0
        THEN [validator |-> active[1], fallback |-> TRUE]
        ELSE [validator |-> active[i], fallback |-> FALSE]

NoValidator == [address |-> "", stake |-> 0, last_block_produced |-> 0]
Panic(m) == [err |-> "panic", msg |-> m]

\* PoSConsensus::select_validator(block_height), with the value of
\* gen_range: [result, validator, fallback].
select_validator(pos, block_height, selection_point) ==
    IF pos.active_validators = <<>>
    THEN [result |-> Err("ValidatorError", "No active validators"),
          validator |-> NoValidator, fallback |-> FALSE]
    ELSE IF sum_stake(pos.active_validators) = 0
    THEN [result |-> Panic("empty range"), validator |-> NoValidator, fallback |-> FALSE]
    ELSE LET w == walk(pos.active_validators, selection_point)
         IN  [result |-> Ok, validator |-> w.validator, fallback |-> w.fallback]

\* ConsensusEngine::new
ConsensusEngine_new(ps) == [params |-> ps, active_validators |-> <<>>]

RECURSIVE push_top(_, _, _)
\* The loop of ConsensusEngine::update_validator_set over the sorted
\* entries: an entry is pushed when its stake is at least min_stake and
\* fewer than validator_set_size validators are pushed so far.
push_top(ps, sorted_validators, active) ==
    IF sorted_validators = <<>> THEN active
    ELSE LET e == Head(sorted_validators)
         IN  IF e.stake >= ps.min_stake /\ Len(active) < ps.validator_set_size
             THEN push_top(ps, Tail(sorted_validators),
                           Append(active, [address |-> e.address, stake |-> e.stake,
                                           last_block_produced |-> 0]))
             ELSE push_top(ps, Tail(sorted_validators), active)

\* ConsensusEngine::update_validator_set; entries is state.get_validators()
\* as validators.iter() yields it, a sequence of [address, stake].
engine_update_validator_set(engine, entries) ==
    [engine EXCEPT !.active_validators =
        push_top(engine.params, sort_by_stake_desc(entries), <<>>)]

\* ConsensusEngine::select_next_validator, with the value of gen_range:
\* [result, validator, fallback].
select_next_validator(engine, c, selection_point) ==
    IF engine.active_validators = <<>>
    THEN [result |-> Err("ValidatorError", "No active validators"),
          validator |-> NoValidator, fallback |-> FALSE]
    ELSE IF c.latest_height \notin DOMAIN c.blocks
    THEN [result |-> Err("StateError", "No blocks in the chain"),
          validator |-> NoValidator, fallback |-> FALSE]
    ELSE IF sum_stake(engine.active_validators) = 0
    THEN [result |-> Panic("empty range"), validator |-> NoValidator, fallback |-> FALSE]
    ELSE LET w == walk(engine.active_validators, selection_point)
         IN  [result |-> Ok, validator |-> w.validator, fallback |-> w.fallback]

\* State::update_validator_stake on the map of stakes
State_update_validator_stake(stakes, validator, stake) == insert(stakes, validator, stake)

\* The PoS and the engine held in the variables.
PoS == [params |-> params, active_validators |-> pos_active_validators]
Engine ==
    [params |-> params, active_validators |-> active_validators,
     pending_transactions |-> pending_transactions, last_block_time |-> last_block_time]

---------------------------------------------------------------------------
(* Inputs and actions of the elections. *)

ElectionAddresses == {"v1", "v2"}
ElectionHeights == 0..MaxElectionHeight

\* The orders in which the entries of a map of stakes can be listed: the
\* orders a HashMap can be iterated in, and the orders a caller can build
\* a Vec<Validator> from it.
Orders(stakes) ==
    { o \in [1..Cardinality(DOMAIN stakes) -> DOMAIN stakes] :
        \A i, j \in DOMAIN o : o[i] = o[j] => i = j }
Entries(stakes, o) == [i \in DOMAIN o |-> [address |-> o[i], stake |-> stakes[o[i]]]]
ValidatorVec(stakes, o) == [i \in DOMAIN o |-> Validator_new(o[i], stakes[o[i]])]

\* The points gen_range yields; when it panics or is not reached, the one
\* point 0 stands for the call.
PointInputs(seed, active) ==
    IF sum_stake(active) = 0 THEN {0} ELSE gen_range(seed, sum_stake(active))

InitElection ==
    /\ validator_stakes = <<>>
    /\ pos_active_validators = PoSConsensus_new(params).active_validators
    /\ active_validators = ConsensusEngine_new(params).active_validators
    /\ election = [op |-> "new", result |-> Ok, validator |-> NoValidator]

\* State::update_validator_stake(validator, stake)
StateUpdateValidatorStake ==
    /\ \E validator \in ElectionAddresses, stake \in StakeInputs :
          validator_stakes' = State_update_validator_stake(validator_stakes, validator, stake)
    /\ UNCHANGED <<pos_active_validators, active_validators, election>>
    /\ UNCHANGED <<chainVars, finalityVars, params, registryVars, otherVars>>

\* PoSConsensus::update_validator_set(validators), with the validators of
\* the map of stakes in an order of the caller's choice.
PoSUpdateValidatorSet ==
    /\ \E o \in Orders(validator_stakes) :
          pos_active_validators' =
              update_validator_set(PoS, ValidatorVec(validator_stakes, o)).active_validators
    /\ UNCHANGED <<validator_stakes, active_validators, election>>
    /\ UNCHANGED <<chainVars, finalityVars, params, registryVars, otherVars>>

\* PoSConsensus::select_validator(block_height)
SelectValidator ==
    /\ \E block_height \in ElectionHeights :
          \E selection_point \in PointInputs(seed_array(block_height), pos_active_validators) :
             LET r == select_validator(PoS, block_height, selection_point)
             IN  election' = [op |-> "select_validator", result |-> r.result,
                              validator |-> r.validator]
    /\ UNCHANGED <<validator_stakes, pos_active_validators, active_validators>>
    /\ UNCHANGED <<chainVars, finalityVars, params, registryVars, otherVars>>

\* ConsensusEngine::update_validator_set()
EngineUpdateValidatorSet ==
    /\ loop_pc # "add_block"
    /\ \E o \in Orders(validator_stakes) :
          active_validators' =
              engine_update_validator_set(Engine, Entries(validator_stakes, o)).active_validators
    /\ UNCHANGED <<validator_stakes, pos_active_validators, election>>
    /\ UNCHANGED <<chainVars, finalityVars, params, registryVars, otherVars>>

\* ConsensusEngine::select_next_validator()
SelectNextValidator ==
    /\ \E selection_point \in
             PointInputs(engine_seed(blocks[latest_height].header.height), active_validators) :
          LET r == select_next_validator(Engine, Chain, selection_point)
          IN  election' = [op |-> "select_next_validator", result |-> r.result,
                           validator |-> r.validator]
    /\ UNCHANGED <<validator_stakes, pos_active_validators, active_validators>>
    /\ UNCHANGED <<chainVars, finalityVars, params, registryVars, otherVars>>

---------------------------------------------------------------------------
(* The reward schedule: ConsensusEngine::calculate_block_reward            *)
(* (consensus/src/lib.rs) and PoSConsensus::calculate_block_reward         *)
(* (consensus/src/pos.rs).  The initial reward, 5,000,000,000, does not    *)
(* fit the 32-bit integers of the model checker: a u64 reward is held as   *)
(* a record [hi, lo] that stands for hi * 100000 + lo, with lo < 100000.   *)

\* halving_interval = 210_000
HalvingInterval == 210000

\* initial_reward = 50 * 100_000_000
initial_reward == [hi |-> 50 * 1000, lo |-> 0]

\* x >> 1 of a u64
shr1(x) == [hi |-> x.hi \div 2, lo |-> ((x.hi % 2) * 100000 + x.lo) \div 2]

\* The u64 0.
U64Zero == [hi |-> 0, lo |-> 0]

RECURSIVE shr(_, _)
\* x >> n of a u64, for n < 64: n shifts by one; 0 >> n is 0.
shr(x, n) == IF n = 0 \/ x = U64Zero THEN x ELSE shr(shr1(x), n - 1)

\* The schedule that halves every tenth of the interval.
calculate_block_reward_short_interval(height) ==
    LET halvings == height \div (HalvingInterval \div 10)
    IN  IF halvings >= 64 THEN U64Zero ELSE shr(initial_reward, halvings)

\* ConsensusEngine::calculate_block_reward(height)
calculate_block_reward(height) ==
    LET halvings == height \div HalvingInterval
    IN  IF halvings >= 64 THEN U64Zero ELSE shr(initial_reward, halvings)

\* PoSConsensus::calculate_block_reward(height)
pos_calculate_block_reward(height) ==
    LET halvings == height \div HalvingInterval
    IN  IF halvings >= 64 THEN U64Zero ELSE shr(initial_reward, halvings)

\* The heights the schedule is asked for: the first, the second and the
\* last height of each of the first MaxHalvings + 1 halving periods.
RewardHeights ==
    { k * HalvingInterval + d : k \in 0..MaxHalvings, d \in {0, 1, HalvingInterval - 1} }

InitReward ==
    reward_call = [height |-> 0, engine |-> calculate_block_reward(0),
                   pos |-> pos_calculate_block_reward(0)]

\* calculate_block_reward(height) of the engine and of the PoS
CalculateBlockReward ==
    /\ \E height \in RewardHeights :
          reward_call' = [height |-> height, engine |-> calculate_block_reward(height),
                          pos |-> pos_calculate_block_reward(height)]
    /\ UNCHANGED <<chainVars, finalityVars, params, registryVars, electionVars,
                   productionVars, lockVars, node_state, ledger64>>

---------------------------------------------------------------------------
(* Block production: ConsensusEngine::add_transaction and                  *)
(* try_produce_block (consensus/src/lib.rs), Node::add_transaction and the *)
(* loop of run_node_loop (node/src/lib.rs).  An engine value is a record   *)
(* [params, active_validators, pending_transactions, last_block_time].     *)
(* An Option is a sequence of at most one element.  The ledger of these    *)
(* runs counts amounts in units of 2,500,000,000.                          *)

None == <<>>
Some(x) == <<x>>

\* A reward in the units of the ledger.
in_units(reward) == reward.hi \div 25000

\* ConsensusEngine::add_transaction(transaction)
add_transaction(engine, transaction) ==
    [engine EXCEPT !.pending_transactions = Append(@, transaction)]

RECURSIVE drain_one_more(_, _, _, _)
\* The loop that takes a transaction while added <= max_transactions.
drain_one_more(pending, added, block_transactions, remaining_transactions) ==
    IF pending = <<>>
    THEN [block_transactions |-> block_transactions,
          remaining_transactions |-> remaining_transactions]
    ELSE IF added <= max_transactions
    THEN drain_one_more(Tail(pending), added + 1,
                        Append(block_transactions, Head(pending)), remaining_transactions)
    ELSE drain_one_more(Tail(pending), added, block_transactions,
                        Append(remaining_transactions, Head(pending)))

RECURSIVE drain_keeps_pool(_, _, _, _)
\* The loop that also leaves in the pool the transactions it takes.
drain_keeps_pool(pending, added, block_transactions, remaining_transactions) ==
    IF pending = <<>>
    THEN [block_transactions |-> block_transactions,
          remaining_transactions |-> remaining_transactions]
    ELSE IF added < max_transactions
    THEN drain_keeps_pool(Tail(pending), added + 1,
                          Append(block_transactions, Head(pending)),
                          Append(remaining_transactions, Head(pending)))
    ELSE drain_keeps_pool(Tail(pending), added, block_transactions,
                          Append(remaining_transactions, Head(pending)))

RECURSIVE drain(_, _, _, _)
\* The loop of try_produce_block over pending_transactions.drain(..):
\* [block_transactions, remaining_transactions].
drain(pending, added, block_transactions, remaining_transactions) ==
    IF pending = <<>>
    THEN [block_transactions |-> block_transactions,
          remaining_transactions |-> remaining_transactions]
    ELSE IF added < max_transactions
    THEN drain(Tail(pending), added + 1, Append(block_transactions, Head(pending)),
               remaining_transactions)
    ELSE drain(Tail(pending), added, block_transactions,
               Append(remaining_transactions, Head(pending)))

\* ConsensusEngine::try_produce_block() past its test of the timer, called
\* at time t, with the value of gen_range: [result, block, engine].
produce_block(engine, c, t, selection_point) ==
    LET s == select_next_validator(engine, c, selection_point)
    IN  IF s.result # Ok
        THEN [result |-> s.result, block |-> None, engine |-> engine]
        ELSE IF c.latest_height \notin DOMAIN c.blocks
        THEN [result |-> Err("StateError", "No blocks in the chain"),
              block |-> None, engine |-> engine]
        ELSE LET validator == s.validator
                 latest_block == c.blocks[c.latest_height]
                 height == latest_block.header.height
                 prev_hash == Block_hash(latest_block)
                 reward == calculate_block_reward(height)
                 coinbase == new_coinbase(validator.address, in_units(reward))
                 d == drain(engine.pending_transactions, 0, <<coinbase>>, <<>>)
                 new_block == Block_new(height + 1, prev_hash, d.block_transactions,
                                        validator.address)
             IN  [result |-> Ok,
                  block |-> Some(new_block),
                  engine |-> [engine EXCEPT
                                !.pending_transactions = d.remaining_transactions,
                                !.last_block_time = t]]

\* try_produce_block without the test of the timer.
try_produce_block_untimed(engine, c, t, selection_point) ==
    produce_block(engine, c, t, selection_point)

\* ConsensusEngine::try_produce_block(), called at time t, with the value
\* of gen_range: [result, block, engine].
try_produce_block(engine, c, t, selection_point) ==
    IF t - engine.last_block_time < engine.params.block_time
    THEN [result |-> Ok, block |-> None, engine |-> engine]
    ELSE produce_block(engine, c, t, selection_point)

\* Node::add_transaction(transaction): [result, engine].  The mempool of
\* the node is written and never read.
Node_add_transaction(engine, transaction) ==
    LET v == Transaction_validate(transaction)
    IN  IF v # "ok"
        THEN [result |-> Err("InvalidTransaction", v), engine |-> engine]
        ELSE [result |-> Ok, engine |-> add_transaction(engine, transaction)]

---------------------------------------------------------------------------
(* Inputs and actions of block production. *)

\* The transactions submitted to the node: transfers that differ in the
\* fee, one more than a block takes, and a transfer of amount 0.
PoolTxInputs ==
    { Transaction_new("a", "b", 1, fee) : fee \in 0..max_transactions }
    \cup { Transaction_new("a", "b", 0, 0) }

\* The maps of stakes a node is started with.
StartStakes == { <<>>, [v \in {"v1"} |-> 1], [v \in {"v1", "v2"} |-> 1] }

InitProduction ==
    /\ pending_transactions = <<>>
    /\ last_block_time = 0
    /\ now = 0
    /\ production = [op |-> "new", result |-> Ok, block |-> None]
    /\ loop_pc = "tick"
    /\ submitted = {}
    /\ returned = {}

\* One second passes.
Tick ==
    /\ now < MaxTime
    /\ now' = now + 1
    /\ UNCHANGED <<pending_transactions, last_block_time, production, loop_pc,
                   submitted, returned>>
    /\ UNCHANGED <<chainVars, finalityVars, params, registryVars, electionVars,
                   reward_call, lockVars, node_state, ledger64>>

\* Node::add_transaction(transaction) of a transaction that was not
\* accepted before; the call waits while the loop holds the consensus
\* mutex.
AddTransaction ==
    /\ loop_pc # "add_block"
    /\ \E transaction \in PoolTxInputs \ submitted :
          LET r == Node_add_transaction(Engine, transaction)
          IN  /\ pending_transactions' = r.engine.pending_transactions
              /\ submitted' = IF r.result = Ok THEN submitted \cup {transaction}
                              ELSE submitted
    /\ UNCHANGED <<last_block_time, now, production, loop_pc, returned>>
    /\ UNCHANGED <<chainVars, finalityVars, params, registryVars, electionVars,
                   reward_call, lockVars, node_state, ledger64>>

\* The transactions of a block after its first.
drained(block) == { block.transactions[i] : i \in 2..Len(block.transactions) }

\* A tick of the loop of run_node_loop up to the return of
\* try_produce_block: on Ok(Some(new_block)) the loop goes on to add_block,
\* on Ok(None) and Err it waits for the next tick; a panic ends the task.
LoopTryProduceBlock ==
    /\ loop_pc = "tick"
    /\ \E selection_point \in
             PointInputs(engine_seed(blocks[latest_height].header.height), active_validators) :
          LET r == try_produce_block(Engine, Chain, now, selection_point)
          IN  /\ pending_transactions' = r.engine.pending_transactions
              /\ last_block_time' = r.engine.last_block_time
              /\ production' = [op |-> "try_produce_block", result |-> r.result,
                                block |-> r.block]
              /\ loop_pc' = IF r.result = Panic("empty range") THEN "panicked"
                            ELSE IF r.result = Ok /\ r.block # None THEN "add_block"
                            ELSE "tick"
              /\ returned' = IF r.block = None THEN returned
                             ELSE returned \cup drained(r.block[1])
    /\ UNCHANGED <<now, submitted>>
    /\ UNCHANGED <<chainVars, finalityVars, params, registryVars, electionVars,
                   reward_call, lockVars, node_state, ledger64>>

\* The rest of the tick: blockchain.add_block(new_block); on Err the loop
\* prints the error and continues with the next tick.
LoopAddBlock ==
    /\ loop_pc = "add_block"
    /\ DoAddBlock(production.block[1])
    /\ loop_pc' = "tick"
    /\ UNCHANGED <<pending_transactions, last_block_time, now, production,
                   submitted, returned>>
    /\ UNCHANGED <<finalityVars, params, registryVars, electionVars,
                   reward_call, lockVars, node_state, ledger64>>

---------------------------------------------------------------------------
(* The mutexes of a node: Node.consensus, Node.blockchain and              *)
(* Node.finality (node/src/lib.rs) and Blockchain.state                    *)
(* (core/src/chain.rs), all std::sync::Mutex, which is not reentrant.  A   *)
(* call is modelled by the sequence of lock() calls and guard drops it     *)
(* makes; a guard is dropped at the end of the scope that declares it.     *)

Lock(m) == [op |-> "lock", mutex |-> m]
Unlock(m) == [op |-> "unlock", mutex |-> m]

Mutexes == {"consensus", "blockchain", "state", "finality"}
NoThread == "none"

\* ConsensusEngine::select_next_validator with an active validator: the
\* guard of the blockchain is a local of the function.
select_next_validator_locks == <<Lock("blockchain"), Unlock("blockchain")>>

\* try_produce_block that holds its guard of the blockchain after it
\* returns.
try_produce_block_locks_guard_kept(outcome) ==
    IF outcome \in {"not_yet", "no_validator"} THEN <<>>
    ELSE select_next_validator_locks \o <<Lock("blockchain")>>

\* ConsensusEngine::try_produce_block.  outcome is "not_yet" (Ok(None)
\* before any lock), "no_validator" (select_next_validator returns Err
\* before it locks) or "produced".
try_produce_block_locks(outcome) ==
    IF outcome \in {"not_yet", "no_validator"} THEN <<>>
    ELSE select_next_validator_locks \o <<Lock("blockchain"), Unlock("blockchain")>>

\* Blockchain::add_block that reaches apply_block: the guard of the state
\* lives in an inner block.
add_block_locks == <<Lock("state"), Unlock("state")>>

\* One tick of the loop of run_node_loop of a validator node.
run_node_loop_locks(outcome) ==
    <<Lock("consensus")>>
    \o try_produce_block_locks(outcome)
    \o (IF outcome = "produced"
        THEN <<Lock("blockchain")>> \o add_block_locks \o <<Unlock("blockchain")>>
        ELSE <<>>)
    \o <<Unlock("consensus")>>

\* Node::add_transaction
Node_add_transaction_locks == <<Lock("consensus"), Unlock("consensus")>>

\* Node::get_height
Node_get_height_locks == <<Lock("blockchain"), Unlock("blockchain")>>

\* Blockchain::get_balance, called through the mutex of the blockchain.
get_balance_locks ==
    <<Lock("blockchain"), Lock("state"), Unlock("state"), Unlock("blockchain")>>

\* ConsensusEngine::update_validator_set, called through the mutex of the
\* engine: the guards of the blockchain and of the state live to the end
\* of the function and are dropped in reverse order.
update_validator_set_locks ==
    <<Lock("consensus"), Lock("blockchain"), Lock("state"),
      Unlock("state"), Unlock("blockchain"), Unlock("consensus")>>

\* A call of the finality manager through its mutex, as
\* Node::get_finalized_height.
finality_locks == <<Lock("finality"), Unlock("finality")>>

\* The second block of Node::start: the finality manager is locked under
\* the guard of the blockchain.
Node_start_locks ==
    <<Lock("blockchain"), Lock("finality"), Unlock("finality"), Unlock("blockchain")>>

---------------------------------------------------------------------------
(* Threads and actions of the mutexes. *)

LoopThread == "loop"
CallerThreads == {"caller1", "caller2"}
Threads == {LoopThread} \cup CallerThreads

LoopOutcomes == {"not_yet", "no_validator", "produced"}
CallerPaths ==
    { Node_add_transaction_locks, Node_get_height_locks, get_balance_locks,
      update_validator_set_locks, finality_locks, Node_start_locks }

Idle == [path |-> <<>>, pc |-> 1]

InitLocks ==
    /\ mutex_holder = [m \in Mutexes |-> NoThread]
    /\ thread_state = [t \in Threads |-> Idle]

\* The step a thread is about to take; an idle thread has none.
HasStep(t) == thread_state[t].pc <= Len(thread_state[t].path)
NextStep(t) == thread_state[t].path[thread_state[t].pc]

\* The thread after its step: idle when the call has returned.
Advance(t) ==
    IF thread_state[t].pc = Len(thread_state[t].path) THEN Idle
    ELSE [thread_state[t] EXCEPT !.pc = @ + 1]

\* The interval of the loop ticks.
LoopTick ==
    /\ thread_state[LoopThread] = Idle
    /\ \E outcome \in LoopOutcomes :
          thread_state' = [thread_state EXCEPT
                              ![LoopThread] = [path |-> run_node_loop_locks(outcome), pc |-> 1]]
    /\ UNCHANGED mutex_holder
    /\ UNCHANGED <<chainVars, finalityVars, params, registryVars, electionVars,
                   productionVars, reward_call, node_state, ledger64>>

\* A thread calls into the node.
BeginCall ==
    /\ \E t \in CallerThreads, path \in CallerPaths :
          /\ thread_state[t] = Idle
          /\ thread_state' = [thread_state EXCEPT ![t] = [path |-> path, pc |-> 1]]
    /\ UNCHANGED mutex_holder
    /\ UNCHANGED <<chainVars, finalityVars, params, registryVars, electionVars,
                   productionVars, reward_call, node_state, ledger64>>

\* mutex.lock() returns: the mutex is free and the caller takes it.
AcquireMutex ==
    /\ \E t \in Threads :
          /\ HasStep(t)
          /\ NextStep(t).op = "lock"
          /\ mutex_holder[NextStep(t).mutex] = NoThread
          /\ mutex_holder' = [mutex_holder EXCEPT ![NextStep(t).mutex] = t]
          /\ thread_state' = [thread_state EXCEPT ![t] = Advance(t)]
    /\ UNCHANGED <<chainVars, finalityVars, params, registryVars, electionVars,
                   productionVars, reward_call, node_state, ledger64>>

\* A guard is dropped.
ReleaseMutex ==
    /\ \E t \in Threads :
          /\ HasStep(t)
          /\ NextStep(t).op = "unlock"
          /\ mutex_holder' = [mutex_holder EXCEPT ![NextStep(t).mutex] = NoThread]
          /\ thread_state' = [thread_state EXCEPT ![t] = Advance(t)]
    /\ UNCHANGED <<chainVars, finalityVars, params, registryVars, electionVars,
                   productionVars, reward_call, node_state, ledger64>>

---------------------------------------------------------------------------
(* Specifications. *)

---------------------------------------------------------------------------
(* The ledger in 64-bit words: core/src/state.rs with the arithmetic of    *)
(* u64.  A u64 is a tuple of four limbs of 16 bits, the least significant  *)
(* first.  `+`, `-`, `+=` and `-=` on u64 panic on overflow in a build     *)
(* with overflow checks (the dev profile) and wrap modulo 2^64 in a build  *)
(* without them (the release profile); the repository sets neither, so     *)
(* both outcomes are taken.                                                *)

LimbBase == 2^16

\* A number below 2^16 as a u64.
u64(n) == <<n, 0, 0, 0>>

\* u64::MAX, 2^64 - 1
U64Max == <<LimbBase - 1, LimbBase - 1, LimbBase - 1, LimbBase - 1>>

\* x + y of two u64: the sum modulo 2^64 and whether it overflowed.
overflowing_add(x, y) ==
    LET s1 == x[1] + y[1]
        s2 == x[2] + y[2] + s1 \div LimbBase
        s3 == x[3] + y[3] + s2 \div LimbBase
        s4 == x[4] + y[4] + s3 \div LimbBase
    IN  [value |-> <<s1 % LimbBase, s2 % LimbBase, s3 % LimbBase, s4 % LimbBase>>,
         overflow |-> s4 >= LimbBase]

\* x - y of two u64: the difference modulo 2^64 and whether it overflowed.
overflowing_sub(x, y) ==
    LET d1 == x[1] - y[1]
        d2 == x[2] - y[2] - (IF d1 < 0 THEN 1 ELSE 0)
        d3 == x[3] - y[3] - (IF d2 < 0 THEN 1 ELSE 0)
        d4 == x[4] - y[4] - (IF d3 < 0 THEN 1 ELSE 0)
    IN  [value |-> <<d1 % LimbBase, d2 % LimbBase, d3 % LimbBase, d4 % LimbBase>>,
         overflow |-> d4 < 0]

\* x < y of two u64
u64_lt(x, y) ==
    \E i \in 1..4 : x[i] < y[i] /\ \A j \in (i + 1)..4 : x[j] = y[j]

\* The builds: with and without overflow checks.
Builds == {"dev", "release"}

\* State::new in u64
State64_new == [balances |-> <<>>, total_supply |-> u64(0)]

\* State::get_balance in u64
get_balance64(st, address) ==
    IF address \in DOMAIN st.balances THEN st.balances[address] ELSE u64(0)

\* State::apply_transaction in u64 under a build: [result, st].  A panic
\* leaves the state as the statements before it wrote it.
apply_transaction64(st, tx, build) ==
    LET checked == build = "dev"
        overflow_panic == Panic("attempt to add with overflow")
    IN  IF tx.sender = COINBASE
        THEN LET credit == overflowing_add(get_balance64(st, tx.recipient), tx.amount)
                 credited == [st EXCEPT !.balances = insert(@, tx.recipient, credit.value)]
                 supply == overflowing_add(st.total_supply, tx.amount)
             IN  IF credit.overflow /\ checked
                 THEN [result |-> overflow_panic,
                       st |-> [st EXCEPT !.balances =
                                  insert(@, tx.recipient, get_balance64(st, tx.recipient))]]
                 ELSE IF supply.overflow /\ checked
                 THEN [result |-> overflow_panic, st |-> credited]
                 ELSE [result |-> Ok,
                       st |-> [credited EXCEPT !.total_supply = supply.value]]
        ELSE LET cost == overflowing_add(tx.amount, tx.fee)
                 sender_balance == get_balance64(st, tx.sender)
             IN  IF cost.overflow /\ checked
                 THEN [result |-> overflow_panic, st |-> st]
                 ELSE IF u64_lt(sender_balance, cost.value)
                 THEN [result |-> Err("InvalidTransaction", "balance"), st |-> st]
                 ELSE LET debited ==
                              [st EXCEPT !.balances =
                                  insert(@, tx.sender,
                                         overflowing_sub(sender_balance, cost.value).value)]
                          credit == overflowing_add(get_balance64(debited, tx.recipient),
                                                    tx.amount)
                      IN  IF credit.overflow /\ checked
                          THEN [result |-> overflow_panic,
                                st |-> [debited EXCEPT !.balances =
                                           insert(@, tx.recipient,
                                                  get_balance64(debited, tx.recipient))]]
                          ELSE [result |-> Ok,
                                st |-> [debited EXCEPT !.balances =
                                           insert(@, tx.recipient, credit.value)]]

\* The amounts and fees of the transactions applied in u64.
AmountInputs64 == { u64(1), u64(2), U64Max }
FeeInputs64 == { u64(0), u64(1), u64(2) }

\* The transactions applied in u64: coinbase transactions that fund "a"
\* and "b", and transfers between the two.
TxInputs64 ==
    { [sender |-> COINBASE, recipient |-> r, amount |-> a, fee |-> u64(0)] :
         r \in {"a", "b"}, a \in {u64(3), U64Max} }
    \cup { [sender |-> "a", recipient |-> "b", amount |-> a, fee |-> f] :
              a \in AmountInputs64, f \in FeeInputs64 }

InitLedger64 ==
    ledger64 = [st |-> State64_new, applied |-> 0, tx |-> None, result |-> Ok]

\* State::apply_transaction(tx) on the ledger in u64, in a build.
ApplyTransaction64 ==
    /\ ledger64.applied < MaxApplied
    /\ ledger64.result.err # "panic"
    /\ \E tx \in TxInputs64, build \in Builds :
          LET r == apply_transaction64(ledger64.st, tx, build)
          IN  ledger64' = [st |-> r.st, applied |-> ledger64.applied + 1,
                           tx |-> Some(tx), result |-> r.result]
    /\ UNCHANGED <<chainVars, finalityVars, params, registryVars, electionVars,
                   productionVars, reward_call, lockVars, node_state>>

\* Node::new: the node is Initializing.
InitNode == node_state = "Initializing"

\* Node::stop(): the state of the node becomes ShuttingDown; nothing else
\* is written and no mutex is taken.
Stop ==
    /\ node_state' = "ShuttingDown"
    /\ UNCHANGED <<chainVars, finalityVars, params, registryVars, electionVars,
                   productionVars, reward_call, lockVars, ledger64>>

InitOther == InitProduction /\ InitReward /\ InitLocks /\ InitLedger64

Init ==
    /\ InitChain /\ InitFinality /\ params = DefaultParams /\ InitRegistry /\ InitElection
    /\ InitOther /\ InitNode

\* The chain and its ledger under add_block.
SpecChain == Init /\ [][AddBlock]_vars

\* The finality manager under its own calls.
NextFinality == InitializeWithGenesis \/ AddCheckpointVote \/ CreateCheckpoint
SpecFinality == Init /\ [][NextFinality]_vars

\* The finality manager beside a chain that grows.
NextNode == InitializeWithGenesis \/ AddCheckpointVote \/ CreateCheckpoint \/ AddBlockOnTip
SpecNode == Init /\ [][NextNode]_vars

\* The validator registry under its own calls, for each choice of the
\* parameters.
InitAnyParams ==
    /\ InitChain /\ InitFinality /\ params \in ParamsInputs /\ InitRegistry /\ InitElection
    /\ InitOther /\ InitNode
NextRegistry ==
    \/ RegisterValidator
    \/ UpdateValidatorStake
    \/ SlashValidator
    \/ RemoveValidator
    \/ GetActiveValidators
SpecRegistry == InitAnyParams /\ [][NextRegistry]_vars

\* A PoSConsensus over a map of stakes that changes, for each choice of
\* the parameters.
NextPoS == StateUpdateValidatorStake \/ PoSUpdateValidatorSet \/ SelectValidator
SpecPoS == InitAnyParams /\ [][NextPoS]_vars

\* The engine of a node over a map of stakes that changes, beside a chain
\* that grows, for each choice of the parameters.
NextEngine ==
    \/ StateUpdateValidatorStake
    \/ EngineUpdateValidatorSet
    \/ SelectNextValidator
    \/ AddBlockOnTip
SpecEngine == InitAnyParams /\ [][NextEngine]_vars

\* The chain under add_block from a genesis block that funds the sender of
\* the transfers twice over.
InitFunded ==
    /\ InitChainFrom(Block_genesis(<<new_coinbase("a", 4)>>))
    /\ InitFinality /\ params = DefaultParams /\ InitRegistry /\ InitElection
    /\ InitOther /\ InitNode
SpecFunded == InitFunded /\ [][AddBlock]_vars

\* The reward schedule of both implementations.
SpecReward == Init /\ [][CalculateBlockReward]_vars

\* A node started over a map of stakes: Node::start calls
\* ConsensusEngine::initialize, which derives the active set and reads the
\* clock, and sets the state of the node to Syncing before it starts the
\* loop.
InitStarted ==
    /\ InitChainFrom(Block_genesis(<<new_coinbase("a", 2)>>))
    /\ InitFinality /\ params = DefaultParams /\ InitRegistry
    /\ validator_stakes \in StartStakes
    /\ pos_active_validators = PoSConsensus_new(params).active_validators
    /\ \E o \in Orders(validator_stakes) :
          active_validators =
              engine_update_validator_set(ConsensusEngine_new(params),
                                          Entries(validator_stakes, o)).active_validators
    /\ election = [op |-> "new", result |-> Ok, validator |-> NoValidator]
    /\ InitOther
    /\ node_state = "Syncing"

\* The production loop of a started node beside the submission of
\* transactions and a chain that other callers extend.
NextProduction ==
    \/ Tick
    \/ AddTransaction
    \/ LoopTryProduceBlock
    \/ LoopAddBlock
    \/ AddBlockOnTip
SpecProduction == InitStarted /\ [][NextProduction]_vars

\* The production loop over a map of stakes that changes.
NextStakes ==
    \/ StateUpdateValidatorStake
    \/ EngineUpdateValidatorSet
    \/ Tick
    \/ LoopTryProduceBlock
    \/ LoopAddBlock
SpecStakes == Init /\ [][NextStakes]_vars

\* The threads of a node over its mutexes.
NextLocks == LoopTick \/ BeginCall \/ AcquireMutex \/ ReleaseMutex
SpecLocks == Init /\ [][NextLocks]_vars

\* The ledger in u64 under apply_transaction, in both builds.
SpecLedger64 == Init /\ [][ApplyTransaction64]_vars

\* The production loop of a started node beside a caller that submits
\* transactions and stops the node.
NextStop == Tick \/ AddTransaction \/ LoopTryProduceBlock \/ LoopAddBlock \/ Stop
SpecStop == InitStarted /\ [][NextStop]_vars

---------------------------------------------------------------------------
(* Claims about the chain and the ledger, checked under SpecChain. *)

\* The ledger and the block store as one value, for comparisons.
Ledger == <<balances, total_supply>>

\* C1 (atomicity of add_block): a call of add_block that fails because a
\* transaction's sender has balance < amount + fee leaves every balance
\* and total_supply as they were before the call.
C1_FailedAddBlockLeavesLedger ==
    [][chain_result' = Err("InvalidTransaction", "balance") => Ledger' = Ledger]_vars

\* C2 (continuity): in every reachable state, add_block of a block that
\* passes Block::validate and has header.height # latest_height + 1 or
\* header.prev_hash # latest_hash returns an InvalidBlock error and leaves
\* the block map, latest_hash, latest_height and the ledger unchanged.
C2_Continuity ==
    \A txs \in TxSeqs, h \in 0..MaxHeight, p \in PrevHashInputs :
        LET block == BlockInput(h, p, txs)
            r == add_block(Chain, block)
        IN  (/\ Block_validate(block) = "ok"
             /\ (h # latest_height + 1 \/ p # latest_hash))
            => (r.result.err = "InvalidBlock" /\ r.chain = Chain)

\* C2's case: a valid block of the right height was rejected for its
\* prev_hash, on a chain that had grown.
C2_Witness ==
    /\ chain_result = Err("InvalidBlock", "prev_hash")
    /\ latest_height >= 1

RECURSIVE stored_coinbase_sum(_)
\* The sum of the coinbase amounts of the stored blocks 0..h.
stored_coinbase_sum(h) ==
    coinbase_sum(blocks[h].transactions)
    + (IF h = 0 THEN 0 ELSE stored_coinbase_sum(h - 1))

\* C6 (supply conservation): total_supply is the sum of the amounts of the
\* coinbase transactions of the blocks stored at heights 0..latest_height.
C6_SupplyIsStoredCoinbases == total_supply = stored_coinbase_sum(latest_height)

\* Every block whose header height is at most latest_height is rejected.
C7_RejectsStoredHeights ==
    \A txs \in TxSeqs, h \in 0..MaxHeight, p \in PrevHashInputs :
        h <= latest_height => add_block(Chain, BlockInput(h, p, txs)).result # Ok

\* A step keeps latest_height or raises it, and keeps every stored block.
C7_StepKeepsBlocks ==
    /\ latest_height' >= latest_height
    /\ \A h \in DOMAIN blocks : h \in DOMAIN blocks' /\ blocks'[h] = blocks[h]

\* C7 (append-only): in every reachable state add_block rejects every
\* block whose header height is at most latest_height (so a different block
\* at the height of an accepted one is rejected, whatever its prev_hash),
\* no step lowers latest_height, and no step replaces, changes or removes
\* the block stored at a height.
C7_AppendOnly == []C7_RejectsStoredHeights /\ [][C7_StepKeepsBlocks]_vars

\* C7's case: with blocks accepted at every height up to MaxHeight, a block
\* of a stored height (every input is one) was rejected for its height.
C7_Witness ==
    /\ latest_height = MaxHeight
    /\ chain_result = Err("InvalidBlock", "height")

---------------------------------------------------------------------------
(* Claims about the finality manager, checked under SpecFinality (C3:      *)
(* under SpecNode, where add_block steps are interleaved).                 *)

\* A step keeps latest_finalized_height or raises it, and keeps
\* is_finalized(H) true where it was true.
C3_StepKeepsFinality ==
    /\ latest_finalized_height' >= latest_finalized_height
    /\ \A H \in HeightInputs : is_finalized(FM, H) => is_finalized(FM, H)'

\* C3 (finality monotonicity): no step of add_checkpoint_vote (succeeding
\* or failing), create_checkpoint or add_block lowers
\* latest_finalized_height, and a height for which is_finalized is true
\* before a step has is_finalized true after it.
C3_FinalityMonotone == [][C3_StepKeepsFinality]_vars

\* C3's case: a checkpoint above genesis was finalized, and afterwards a
\* checkpoint at a lower height was finalized by a vote, beside a chain
\* that has grown.
C3_Witness ==
    /\ latest_finalized_height = CheckpointInterval
    /\ finality_call = [op |-> "add_checkpoint_vote", result |-> OkBool(TRUE)]
    /\ 0 \in DOMAIN checkpoints
    /\ checkpoints[0].finalized
    /\ "Genesis" \notin checkpoints[0].votes
    /\ latest_height >= 1

\* C4 (equivocation detection): in every reachable state, for a checkpoint
\* stored at height h with block_hash A, add_checkpoint_vote(h, B, v) with
\* B # A returns an error and leaves the checkpoint (its votes, its
\* finalized flag, its block_hash) and the rest of the manager unchanged.
C4_EquivocationRejected ==
    \A h \in DOMAIN checkpoints, B \in HashInputs, v \in ValidatorInputs :
        B # checkpoints[h].block_hash
        => LET r == add_checkpoint_vote(FM, h, B, v)
           IN  /\ r.result.err # "none"
               /\ r.fm.checkpoints[h] = checkpoints[h]
               /\ r.fm = FM

\* C4's case: a vote was refused for its hash at a height whose checkpoint
\* holds a vote.
C4_Witness ==
    /\ finality_call = [op |-> "add_checkpoint_vote", result |-> Err("StateError", "hash")]
    /\ \E h \in DOMAIN checkpoints :
          h > 0 /\ checkpoints[h].votes # {} /\ ~checkpoints[h].finalized

\* C8 (Finalized is terminal): a checkpoint that has finalized = true
\* before a step has finalized = true after it.
C8_FinalizedIsTerminal ==
    [][\A h \in DOMAIN checkpoints :
          checkpoints[h].finalized
          => (h \in DOMAIN checkpoints' /\ checkpoints'[h].finalized)]_vars

\* C9 (block_hash fixed at creation): a checkpoint that exists before a
\* step exists after it with the same block_hash and with every vote it
\* held.
C9_HashAndVotesKept ==
    [][\A h \in DOMAIN checkpoints :
          /\ h \in DOMAIN checkpoints'
          /\ checkpoints'[h].block_hash = checkpoints[h].block_hash
          /\ checkpoints[h].votes \subseteq checkpoints'[h].votes]_vars

\* C10 (checkpoint heights): add_checkpoint_vote and create_checkpoint at a
\* height that is not a multiple of checkpoint_interval return an error and
\* leave the manager unchanged, and every stored checkpoint is stored at,
\* and carries, a height that is a multiple of checkpoint_interval.
C10_CheckpointHeights ==
    /\ \A h \in DOMAIN checkpoints :
          h % CheckpointInterval = 0 /\ checkpoints[h].height = h
    /\ \A h \in HeightInputs, B \in HashInputs :
          h % CheckpointInterval # 0
          => /\ create_checkpoint(FM, h, B) = [result |-> Err("StateError", "height"), fm |-> FM]
             /\ \A v \in ValidatorInputs :
                   add_checkpoint_vote(FM, h, B, v)
                       = [result |-> Err("StateError", "height"), fm |-> FM]

\* C10's case: a call was refused for its height while a checkpoint above
\* genesis is stored.
C10_Witness ==
    /\ finality_call.result = Err("StateError", "height")
    /\ \E h \in DOMAIN checkpoints : h > 0

\* ConsensusParams::default: finality_threshold = 0.67, as a percentage.
FinalityThresholdPercent == 67

\* The validators recorded in votes make up at least finality_threshold of
\* the validator set, by stake.  (Every validator of ValidatorInputs has the
\* same stake, so the fraction by voter count is the same fraction.)
MeetsThreshold(votes) ==
    100 * Cardinality({ v \in ValidatorInputs : v.address \in votes })
        >= FinalityThresholdPercent * Cardinality(ValidatorInputs)

\* C11 (quorum rule): in every reachable state, a successful
\* add_checkpoint_vote on a checkpoint that is pending (or not yet stored)
\* leaves it finalized exactly when the validators recorded as its voters
\* make up at least finality_threshold of the validator set.
C11_QuorumRule ==
    finality_call.op # "new"
    => \A h \in HeightInputs, B \in HashInputs, v \in ValidatorInputs :
          LET r == add_checkpoint_vote(FM, h, B, v)
          IN  (/\ r.result.err = "none"
               /\ ~(h \in DOMAIN checkpoints /\ checkpoints[h].finalized))
              => (r.fm.checkpoints[h].finalized
                  <=> MeetsThreshold(r.fm.checkpoints[h].votes))

\* C12 (finality is prefix-closed): in every reachable state of an
\* initialised manager, is_finalized(h) is true exactly for the heights h
\* that are at most the height of some finalized checkpoint.
C12_FinalityPrefixClosed ==
    finality_call.op # "new"
    => \A h \in HeightInputs :
          is_finalized(FM, h)
          <=> \E g \in DOMAIN checkpoints : checkpoints[g].finalized /\ h <= g

\* C13 (genesis is finalized): when initialize_with_genesis has returned,
\* the checkpoint at height 0 holds the genesis block's hash, the one voter
\* "Genesis" and finalized = true; and from then on is_finalized(0) is true.
C13_GenesisFinalized ==
    /\ finality_call.op = "initialize_with_genesis"
       => /\ finality_call.result = Ok
          /\ 0 \in DOMAIN checkpoints
          /\ checkpoints[0] = [height |-> 0, block_hash |-> Block_hash(blocks[0]),
                               votes |-> {"Genesis"}, finalized |-> TRUE]
          /\ latest_finalized_height = 0
    /\ finality_call.op # "new" => is_finalized(FM, 0)

\* C13's case: initialize_with_genesis has just returned, on a chain whose
\* genesis block holds a transaction.
C13_Witness ==
    /\ finality_call.op = "initialize_with_genesis"
    /\ blocks[0].transactions # <<>>
    /\ checkpoints[0].votes = {"Genesis"}

---------------------------------------------------------------------------
(* Claims about the validator registry, checked under SpecRegistry. *)

\* C19 (the registry rejects invalid requests): in every reachable state,
\* register_validator of a registered address or of a stake below min_stake
\* fails; update_validator_stake, slash_validator and remove_validator of
\* an address that is not registered fail; every call that fails leaves the
\* validator list as it was; and no two registered validators share an
\* address.
C19_RegistryRejects ==
    /\ \A i, j \in DOMAIN validators :
          validators[i].address = validators[j].address => i = j
    /\ \A address \in AddressInputs :
          /\ \A stake \in StakeInputs :
                LET r == register_validator(VM, address, stake)
                IN  /\ (any_address(validators, address) \/ stake < params.min_stake)
                       => r.result.err # "none"
                    /\ r.result.err # "none" => r.vm = VM
          /\ \A new_stake \in StakeInputs :
                LET r == update_validator_stake(VM, address, new_stake)
                IN  /\ ~any_address(validators, address) => r.result.err # "none"
                    /\ r.result.err # "none" => r.vm = VM
          /\ \A slash_percentage \in FractionInputs :
                LET r == slash_validator(VM, address, slash_percentage)
                IN  /\ ~any_address(validators, address) => r.result.err # "none"
                    /\ r.result.err # "none" => r.vm = VM
          /\ LET r == remove_validator(VM, address)
             IN  /\ ~any_address(validators, address) => r.result.err # "none"
                 /\ r.result.err # "none" => r.vm = VM

\* C19's case: with two validators registered, a registration was refused
\* because the address is registered.
C19_Witness ==
    /\ Len(validators) = 2
    /\ registry_call.op = "register_validator"
    /\ registry_call.result = Err("StateError", "already registered")

\* C20 (slashing): in every reachable state, slash_validator(address,
\* fraction) on a registered validator of stake s succeeds, leaves it the
\* stake s - floor(s * fraction), or 0 if that is negative, returns old
\* stake minus new stake, and changes no other validator.
C20_SlashReturnsRemoved ==
    \A address \in AddressInputs, slash_percentage \in FractionInputs :
        any_address(validators, address)
        => LET i == find_address(validators, address)
               r == slash_validator(VM, address, slash_percentage)
               old == validators[i].stake
               cut == (old * slash_percentage.num) \div slash_percentage.den
               new == r.vm.validators[i].stake
           IN  /\ r.result = Ok
               /\ new = (IF cut > old THEN 0 ELSE old - cut)
               /\ r.value = old - new
               /\ Len(r.vm.validators) = Len(validators)
               /\ \A j \in DOMAIN validators :
                     j # i => r.vm.validators[j] = validators[j]

\* The permutations of the indices of a sequence.
IndexOrders(vs) ==
    { o \in [DOMAIN vs -> DOMAIN vs] : \A i, j \in DOMAIN vs : o[i] = o[j] => i = j }
\* The validators of vs listed in the order o.
Permuted(vs, o) == [i \in DOMAIN vs |-> vs[o[i]]]
\* The address and stake of each validator of vs, as the entries of a map.
AsEntries(vs) == [i \in DOMAIN vs |-> [address |-> vs[i].address, stake |-> vs[i].stake]]

\* active is the top of source by stake: only validators of source with
\* stake >= min_stake, each once, in non-increasing stake order, as many as
\* size allows, and none left out that has more stake than one included.
IsTopByStake(active, source, min_stake, size) ==
    LET eligible == { j \in DOMAIN source : source[j].stake >= min_stake }
        included == { j \in DOMAIN source :
                        \E i \in DOMAIN active : active[i].address = source[j].address }
    IN  /\ \A i \in DOMAIN active :
              /\ active[i].stake >= min_stake
              /\ \E j \in DOMAIN source :
                    /\ source[j].address = active[i].address
                    /\ source[j].stake = active[i].stake
        /\ \A i, j \in DOMAIN active :
              /\ i < j => active[i].stake >= active[j].stake
              /\ active[i].address = active[j].address => i = j
        /\ Len(active) = (IF size < Cardinality(eligible) THEN size
                          ELSE Cardinality(eligible))
        /\ \A j \in eligible \ included, i \in DOMAIN active :
              source[j].stake <= active[i].stake

\* C17 (the active set is the top by stake): in every reachable state of
\* the registry, the result of get_active_validators, the result of
\* PoSConsensus::update_validator_set on the registered validators and the
\* result of ConsensusEngine::update_validator_set on their stakes, in
\* whatever order the map yields them, hold only validators with stake >=
\* min_stake, in non-increasing stake order, min(validator_set_size, number
\* of validators with stake >= min_stake) of them, and leave out no such
\* validator that has more stake than one included.
C17_ActiveSetIsTop ==
    /\ IsTopByStake(get_active_validators(VM), validators,
                    params.min_stake, params.validator_set_size)
    /\ IsTopByStake(update_validator_set(PoS, validators).active_validators, validators,
                    params.min_stake, params.validator_set_size)
    /\ \A o \in IndexOrders(validators) :
          IsTopByStake(
              engine_update_validator_set(Engine, AsEntries(Permuted(validators, o)))
                  .active_validators,
              validators, params.min_stake, params.validator_set_size)
    /\ registry_call.op = "get_active_validators"
       => registry_call.active = get_active_validators(VM)

\* C17's case: get_active_validators has returned for a registry in which
\* the sort, the filter and the truncation all matter: three validators
\* registered in ascending stake order, the first below min_stake, and
\* room for one.
C17_Witness ==
    /\ registry_call.op = "get_active_validators"
    /\ params.min_stake = 1 /\ params.validator_set_size = 1
    /\ Len(validators) = 3
    /\ validators[1].stake = 0
    /\ validators[2].stake = 1
    /\ validators[3].stake = 2
    /\ registry_call.active = <<validators[3]>>

\* C18 (ties are ordered by address): in every reachable state of the
\* registry, the active set depends only on the map from address to stake:
\* get_active_validators returns the same sequence for every order in which
\* the same validators could have been registered, and
\* ConsensusEngine::update_validator_set computes the same sequence for
\* every order in which the map yields its entries.  (The leader is chosen
\* by a walk of that sequence, so equal sequences give equal leaders.)
C18_ActiveSetFromStakeMap ==
    \A o \in IndexOrders(validators) :
        /\ get_active_validators([VM EXCEPT !.validators = Permuted(validators, o)])
              = get_active_validators(VM)
        /\ engine_update_validator_set(Engine, AsEntries(Permuted(validators, o)))
              = engine_update_validator_set(Engine, AsEntries(validators))

---------------------------------------------------------------------------
(* Claims about the elections.  They are stated for the active set each    *)
(* election holds and for the active sets PoSConsensus and ConsensusEngine *)
(* compute from the map of stakes of the state; C14 and C15 are checked    *)
(* under SpecEngine, C16 under SpecPoS.                                    *)

\* C14 (the seed encodes the height): the seed of
\* PoSConsensus::select_validator differs for different heights, and the
\* seed ConsensusEngine::select_next_validator gives the generator at the
\* height of the tip differs from the seed it gave it at the height of
\* every earlier block of the chain.
C14_SeedEncodesHeight ==
    /\ \A h1, h2 \in ElectionHeights : h1 # h2 => seed_array(h1) # seed_array(h2)
    /\ \A h \in DOMAIN blocks :
          blocks[h].header.height # blocks[latest_height].header.height
          => engine_seed(blocks[h].header.height)
                 # engine_seed(blocks[latest_height].header.height)

\* The active sets PoSConsensus::update_validator_set computes from the
\* map of stakes, and the one the PoS holds.
PoSActiveSets ==
    { update_validator_set(PoS, ValidatorVec(validator_stakes, o)).active_validators :
        o \in Orders(validator_stakes) } \cup {pos_active_validators}

\* The active sets ConsensusEngine::update_validator_set computes from the
\* map of stakes, and the one the engine holds.
EngineActiveSets ==
    { engine_update_validator_set(Engine, Entries(validator_stakes, o)).active_validators :
        o \in Orders(validator_stakes) } \cup {active_validators}

\* The number of selection points of 0..T-1 for which the election
\* select(_) returns the validator of the given address.
Chosen(T, select(_), address) ==
    Cardinality({ p \in 0..(T - 1) :
                    select(p).result = Ok /\ select(p).validator.address = address })

\* C15 (weighted intervals): in every reachable state, for every non-empty
\* active set of total stake T > 0, each validator v of the set is the
\* result of the election for exactly stake(v) of the selection points
\* 0..T-1 (so a validator of stake 0 for none), in
\* PoSConsensus::select_validator at every height and in
\* ConsensusEngine::select_next_validator.
C15_WeightedIntervals ==
    /\ \A active \in PoSActiveSets, block_height \in ElectionHeights :
          sum_stake(active) > 0
          => \A i \in DOMAIN active :
                Chosen(sum_stake(active),
                       LAMBDA p : select_validator([PoS EXCEPT !.active_validators = active],
                                                   block_height, p),
                       active[i].address) = active[i].stake
    /\ \A active \in EngineActiveSets :
          sum_stake(active) > 0
          => \A i \in DOMAIN active :
                Chosen(sum_stake(active),
                       LAMBDA p : select_next_validator(
                                      [Engine EXCEPT !.active_validators = active], Chain, p),
                       active[i].address) = active[i].stake

\* C15's case: the engine holds two validators of stakes 2 and 1, and its
\* election, on a chain that has grown, returned the second.
C15_Witness ==
    /\ election.op = "select_next_validator"
    /\ election.result = Ok
    /\ Len(active_validators) = 2
    /\ active_validators[1].stake = 2
    /\ active_validators[2].stake = 1
    /\ election.validator = active_validators[2]
    /\ latest_height >= 1

\* r is what the claim says of an election over the active set with the
\* selection point p: an error when the set is empty, and else the first
\* validator of the set at which the cumulative stake exceeds p, not
\* reached by the fallback.
ElectsFirstAbove(r, active, p) ==
    /\ r.result.err # "none" <=> active = <<>>
    /\ active # <<>>
       => /\ r.result = Ok
          /\ ~r.fallback
          /\ \E i \in DOMAIN active :
                /\ r.validator = active[i]
                /\ sum_stake(SubSeq(active, 1, i)) > p
                /\ \A j \in 1..(i - 1) : sum_stake(SubSeq(active, 1, j)) <= p

\* C16 (the election fails only on the empty set): in every reachable
\* state, for every active set and every selection point the generator
\* can yield, the election returns an error exactly when the set is empty,
\* and for a non-empty set it returns normally, without the fallback, the
\* first validator of the set whose cumulative stake exceeds the point.
C16_ErrorOnlyWhenEmpty ==
    /\ \A active \in PoSActiveSets, block_height \in ElectionHeights :
          \A p \in PointInputs(seed_array(block_height), active) :
             ElectsFirstAbove(
                 select_validator([PoS EXCEPT !.active_validators = active], block_height, p),
                 active, p)
    /\ \A active \in EngineActiveSets :
          \A p \in PointInputs(engine_seed(blocks[latest_height].header.height), active) :
             ElectsFirstAbove(
                 select_next_validator([Engine EXCEPT !.active_validators = active], Chain, p),
                 active, p)

---------------------------------------------------------------------------
(* Claims about the reward schedule, checked under SpecReward. *)

\* x <= y of two u64 held as [hi, lo]
u64_le(x, y) == x.hi < y.hi \/ (x.hi = y.hi /\ x.lo <= y.lo)

\* C26: the reward of a height is 5,000,000,000 shifted right by
\* floor(height / 210000): it is 5,000,000,000 in the first period and,
\* in each later one, the reward of the period before shifted right by
\* one; it is 0 from the 64th halving on, 2,500,000,000 at height 210000,
\* no greater than the reward of any lower height, and the same in the
\* engine and in the PoS.
C26_RewardSchedule ==
    LET h == reward_call.height
        r == reward_call.engine
    IN  /\ reward_call.pos = r
        /\ h < 210000 => r = [hi |-> 50000, lo |-> 0]
        /\ h >= 210000 => r = shr1(calculate_block_reward(h - 210000))
        /\ h = 210000 => r = [hi |-> 25000, lo |-> 0]
        /\ h \div 210000 >= 64 => r = U64Zero
        /\ \A lower \in RewardHeights :
              lower <= h => u64_le(r, calculate_block_reward(lower))

\* The reward was asked for the first height of the second period, or for
\* the first height past the 64th halving.
C26_Witness ==
    \/ reward_call.height = 210000 /\ reward_call.engine = [hi |-> 25000, lo |-> 0]
    \/ reward_call.height = 64 * 210000 /\ reward_call.engine = U64Zero

---------------------------------------------------------------------------
(* Claims about block production, checked under SpecProduction. *)

\* C21: a try_produce_block called while fewer than block_time seconds
\* have passed since last_block_time returns Ok(None) and leaves the
\* pool, last_block_time, the active set, the chain and the ledger as
\* they are.
C21_NoOpBeforeBlockTime ==
    [][ (LoopTryProduceBlock /\ now - last_block_time < params.block_time)
        => /\ production'.result = Ok
           /\ production'.block = None
           /\ UNCHANGED <<pending_transactions, last_block_time, active_validators>>
           /\ UNCHANGED <<blocks, latest_hash, latest_height, balances, total_supply>>
      ]_vars

\* The last try_produce_block came before its time at a node with an
\* active validator and a transaction in the pool.
C21_Witness ==
    /\ production = [op |-> "try_produce_block", result |-> Ok, block |-> None]
    /\ now - last_block_time < params.block_time
    /\ active_validators # <<>>
    /\ pending_transactions # <<>>

\* The addresses of the active sets update_validator_set computes from the
\* map of stakes as it is.
CurrentActiveAddresses ==
    UNION { { active[i].address : i \in DOMAIN active } :
              active \in { engine_update_validator_set(Engine, Entries(validator_stakes, o)).active_validators :
                              o \in Orders(validator_stakes) } }

\* C22 (checked under SpecStakes): the leader of a block that
\* try_produce_block returns belongs to the active set derived from the
\* map of stakes as it is at the time of the call.
C22_LeaderFromCurrentStakes ==
    [][ (LoopTryProduceBlock /\ production'.block # None)
        => production'.block[1].header.validator \in CurrentActiveAddresses
      ]_vars

\* C23: a block that try_produce_block returns extends the tip: its
\* height is the tip's plus one, its prev_hash the hash of the tip's
\* header, its first transaction a coinbase to the validator of its
\* header; the call leaves the stored blocks, the tip and the ledger as
\* they are.
C23_ProducedBlockExtendsTip ==
    [][ (LoopTryProduceBlock /\ production'.block # None)
        => LET new_block == production'.block[1]
               tip == blocks[latest_height]
           IN  /\ new_block.header.height = tip.header.height + 1
               /\ new_block.header.prev_hash = Block_hash(tip)
               /\ new_block.transactions[1].sender = COINBASE
               /\ new_block.transactions[1].recipient = new_block.header.validator
               /\ \E i \in DOMAIN active_validators :
                     active_validators[i].address = new_block.header.validator
               /\ UNCHANGED <<blocks, latest_hash, latest_height, balances, total_supply>>
      ]_vars

\* The loop holds a block produced on a tip that is not the genesis block.
C23_Witness ==
    /\ loop_pc = "add_block"
    /\ production.block # None
    /\ latest_height >= 1
    /\ production.block[1].header.height = latest_height + 1
    /\ production.block[1].header.prev_hash = latest_hash

\* C24: a block that try_produce_block returns holds, after the coinbase,
\* the first min(n, max_transactions) of the n pending transactions in
\* their order of submission, and the pool afterwards holds the rest in
\* their order.
C24_DrainIsFifoAndBounded ==
    [][ (LoopTryProduceBlock /\ production'.block # None)
        => LET txs == production'.block[1].transactions
               n == Len(pending_transactions)
               k == IF n < max_transactions THEN n ELSE max_transactions
           IN  /\ Len(txs) = k + 1
               /\ SubSeq(txs, 2, k + 1) = SubSeq(pending_transactions, 1, k)
               /\ pending_transactions' = SubSeq(pending_transactions, k + 1, n)
      ]_vars

\* The loop holds a block that took max_transactions transactions of a
\* pool that held more.
C24_Witness ==
    /\ loop_pc = "add_block"
    /\ production.block # None
    /\ Len(production.block[1].transactions) = max_transactions + 1
    /\ pending_transactions # <<>>

\* The transactions of the pool.
pooled == { pending_transactions[i] : i \in DOMAIN pending_transactions }

\* C25: a try_produce_block that returns a block sets last_block_time to
\* the time of the call and takes the block's transactions out of the
\* pool; none of them was in a block returned before; add_block of the
\* block, accepted or rejected, leaves the pool and the timer as they are;
\* so a transaction of a returned block is never in the pool again.
C25_DrainedOnce ==
    /\ [](returned \cap pooled = {})
    /\ [][ /\ (LoopTryProduceBlock /\ production'.block # None)
              => /\ last_block_time' = now
                 /\ drained(production'.block[1]) \cap returned = {}
                 /\ drained(production'.block[1]) \subseteq returned'
           /\ LoopAddBlock => UNCHANGED <<pending_transactions, last_block_time>>
        ]_vars

\* add_block rejected a produced block that had taken transactions of the
\* pool: the loop waits for its next tick and the block is not stored.
C25_Witness ==
    /\ loop_pc = "tick"
    /\ production.block # None
    /\ drained(production.block[1]) # {}
    /\ chain_result # Ok
    /\ production.block[1].header.height \notin DOMAIN blocks
    /\ drained(production.block[1]) \cap pooled = {}

\* C29: when the tip has changed between the read of try_produce_block
\* and the add_block of the produced block, that add_block fails with the
\* InvalidBlock error of the height or of prev_hash, the stored blocks,
\* the tip and the ledger stay as they are, and the loop goes on to its
\* next tick.
C29_StaleBlockRejected ==
    [][ (LoopAddBlock /\ production.block[1].header.prev_hash # latest_hash)
        => /\ chain_result' \in {Err("InvalidBlock", "height"), Err("InvalidBlock", "prev_hash")}
           /\ UNCHANGED <<blocks, latest_hash, latest_height, balances, total_supply>>
           /\ loop_pc' = "tick"
      ]_vars

\* The loop has added a stale block: the block stored at its height is
\* the other one, and the loop waits for its next tick.
C29_Witness ==
    /\ loop_pc = "tick"
    /\ production.block # None
    /\ chain_result = Err("InvalidBlock", "height")
    /\ production.block[1].header.height \in DOMAIN blocks
    /\ blocks[production.block[1].header.height] # production.block[1]
    /\ blocks[production.block[1].header.height].header.validator = "a"

---------------------------------------------------------------------------
(* Claims about replay, checked under SpecFunded and SpecChain. *)

\* The places of the stored blocks that hold a transfer.
StoredTransfers ==
    { <<h, i>> \in UNION { {h} \X DOMAIN blocks[h].transactions : h \in DOMAIN blocks } :
        blocks[h].transactions[i].sender # COINBASE }

\* C27 (checked under SpecFunded): no transfer is applied twice: the
\* accepted blocks, each applied to the ledger, hold a transfer of a given
\* id in one place at most.
C27_NoTransferAppliedTwice ==
    \A p, q \in StoredTransfers :
        blocks[p[1]].transactions[p[2]].id = blocks[q[1]].transactions[q[2]].id => p = q

\* C28 (checked under SpecChain): validate_chain succeeds, and the State
\* it rebuilds from the stored blocks has the balances and the
\* total_supply of the live ledger.
C28_ReplayEquivalence ==
    LET r == validate_chain(Chain)
    IN  /\ r.result = Ok
        /\ \A address \in {"a", "b", "Genesis"} :
              get_balance(r.st, address) = get_balance(Chain.st, address)
        /\ r.st.total_supply = total_supply

---------------------------------------------------------------------------
(* Claims about the mutexes, checked under SpecLocks. *)

\* A thread waits when the mutex it is about to lock is held; it waits for
\* the holder.
Waiting(t) ==
    /\ HasStep(t)
    /\ NextStep(t).op = "lock"
    /\ mutex_holder[NextStep(t).mutex] # NoThread
WaitsFor(t) == mutex_holder[NextStep(t).mutex]

\* C30: no set of threads waits in a cycle on the mutexes of the
\* consensus, the blockchain, the state and the finality manager, a set
\* of one thread included (a thread that locks a mutex it holds); and a
\* production attempt at an engine without an active validator takes no
\* further mutex and returns the ValidatorError.
C30_NoCyclicWait ==
    /\ \A waiters \in SUBSET Threads :
          waiters # {} => \E t \in waiters : ~(Waiting(t) /\ WaitsFor(t) \in waiters)
    /\ run_node_loop_locks("no_validator") = <<Lock("consensus"), Unlock("consensus")>>
    /\ LET r == try_produce_block([Engine EXCEPT !.active_validators = <<>>], Chain,
                                  last_block_time + params.block_time, 0)
       IN  r.result = Err("ValidatorError", "No active validators") /\ r.block = None

\* The loop holds the three mutexes of its tick while one caller waits for
\* the consensus and the other for the blockchain.
C30_Witness ==
    /\ mutex_holder["consensus"] = LoopThread
    /\ mutex_holder["blockchain"] = LoopThread
    /\ mutex_holder["state"] = LoopThread
    /\ \E t, u \in CallerThreads :
          /\ Waiting(t) /\ NextStep(t).mutex = "consensus"
          /\ Waiting(u) /\ NextStep(u).mutex = "blockchain"

---------------------------------------------------------------------------
(* Claims about the structure of the chain, checked under SpecChain. *)

---------------------------------------------------------------------------
(* Claims about the amount test of Transaction::validate, checked under    *)
(* SpecChain.                                                              *)

\* The transactions whose amount is 0 and whose id is their hash: a transfer
\* and a coinbase transaction.
ZeroAmountInputs == { Transaction_new("a", "b", 0, 1), new_coinbase("b", 0) }

\* C33: Transaction::validate rejects a transaction for an amount of 0 if and
\* only if its sender is not COINBASE, and a block on the tip whose only
\* transaction is a coinbase transaction of amount 0 with the right id
\* passes Block::validate and is accepted by add_block.
C33_ZeroAmountRejectedOnlyOfTransfers ==
    /\ \A tx \in ZeroAmountInputs :
          (Transaction_validate(tx) = "amount") <=> (tx.sender # COINBASE)
    /\ \A tx \in ZeroAmountInputs :
          tx.sender = COINBASE =>
             LET block == BlockInput(latest_height + 1, latest_hash, <<tx>>)
             IN  /\ Transaction_validate(tx) = "ok"
                 /\ Block_validate(block) = "ok"
                 /\ add_block(Chain, block).result = Ok

---------------------------------------------------------------------------
(* Claims about votes and finalization, checked under SpecFinality. *)

\* C37: in every state between two operations of the finality manager, each
\* checkpoint above height 0 is finalized if and only if its vote set holds
\* at least 2 validator addresses.
C37_FinalizedIffTwoVotes ==
    \A h \in DOMAIN checkpoints \ {0} :
       checkpoints[h].finalized <=> (Cardinality(checkpoints[h].votes) >= 2)

\* A vote has just finalized a checkpoint above height 0 that holds two votes.
C37_Witness ==
    /\ finality_call.op = "add_checkpoint_vote"
    /\ finality_call.result = OkBool(TRUE)
    /\ \E h \in DOMAIN checkpoints \ {0} :
          checkpoints[h].finalized /\ Cardinality(checkpoints[h].votes) = 2

\* C38: a vote of a validator for a height above 0 whose checkpoint holds no
\* vote of another validator, when it is recorded, leaves the vote set with
\* the one entry of that validator, the checkpoint pending and
\* latest_finalized_height as it was; when the validator had voted before,
\* the manager is unchanged.  Every state a vote leads to is checked again,
\* so the same holds of any number of repeated votes.
C38_OneValidatorNeverFinalizes ==
    finality_call.op # "new" =>
       \A height \in HeightInputs \ {0}, block_hash \in HashInputs,
          validator \in ValidatorInputs :
          LET voted == add_checkpoint_vote(FM, height, block_hash, validator)
              alone == \/ height \notin DOMAIN checkpoints
                       \/ checkpoints[height].votes \subseteq {validator.address}
          IN  (alone /\ voted.result.err = "none") =>
                 /\ voted.result = OkBool(FALSE)
                 /\ voted.fm.checkpoints[height].votes = {validator.address}
                 /\ ~voted.fm.checkpoints[height].finalized
                 /\ voted.fm.latest_finalized_height = latest_finalized_height
                 /\ (height \in DOMAIN checkpoints
                       /\ checkpoints[height].votes = {validator.address})
                        => voted.fm = FM

\* A checkpoint above height 0 holds the vote of one validator, whose
\* vote was the last call, and is pending.
C38_Witness ==
    /\ finality_call.op = "add_checkpoint_vote"
    /\ finality_call.result = OkBool(FALSE)
    /\ \E h \in DOMAIN checkpoints \ {0} :
          /\ checkpoints[h].votes = {"v1"}
          /\ ~checkpoints[h].finalized
          /\ add_checkpoint_vote(FM, h, checkpoints[h].block_hash,
                                 Validator_new("v1", 1)).fm = FM

\* C39: once the manager is initialised with the genesis block, a checkpoint
\* exists at latest_finalized_height and is finalized, and no checkpoint
\* at a greater height is finalized.
C39_LatestFinalizedIsFinalized ==
    finality_call.op # "new" =>
       /\ latest_finalized_height \in DOMAIN checkpoints
       /\ checkpoints[latest_finalized_height].finalized
       /\ \A h \in DOMAIN checkpoints :
             h > latest_finalized_height => ~checkpoints[h].finalized

---------------------------------------------------------------------------
(* Claims about stopping the node, checked under SpecStop. *)

\* C31: once Node::stop has returned (the state of the node is
\* ShuttingDown) the loop comes to a stop: a tick of the loop that begins
\* after that returns no block, so that no add_block call follows it.  The
\* add_block of a block that try_produce_block returned before stop is the
\* end of the tick in which stop came and is allowed.
C31_LoopStopsAfterStop ==
    [][(node_state = "ShuttingDown" /\ LoopTryProduceBlock)
          => production'.block = None]_vars

---------------------------------------------------------------------------
(* Production late in the schedule.  A chain whose tip is at height H      *)
(* holds the blocks 0..H; try_produce_block and add_block read the tip,    *)
(* latest_hash, latest_height and the ledger and no block below the tip,   *)
(* so the map of the model holds the tip alone.  The tips are the two      *)
(* last heights of the first halving period (rewards 5,000,000,000 and,    *)
(* after them, 2,500,000,000), the first height of the 34th period (the    *)
(* first whose reward, 5,000,000,000 >> 33, is 0) and the first height     *)
(* past 64 halvings; in_units is exact on these rewards.                   *)

LateTipHeights ==
    { HalvingInterval - 2, HalvingInterval - 1, 33 * HalvingInterval,
      64 * HalvingInterval }

\* The tip of a chain at a height: a block without transactions, as
\* add_block accepts it from any caller.
LateTip(height) == Block_new(height, OtherHash, <<>>, "a")

\* A node started over a chain whose tip is at one of the late heights.
InitLate ==
    /\ \E height \in LateTipHeights :
          /\ blocks = [h \in {height} |-> LateTip(height)]
          /\ latest_hash = Block_hash(LateTip(height))
          /\ latest_height = height
    /\ balances = apply_block(State_new, Block_genesis(<<new_coinbase("a", 2)>>)).st.balances
    /\ total_supply = 2
    /\ chain_result = Ok
    /\ InitFinality /\ params = DefaultParams /\ InitRegistry
    /\ validator_stakes \in StartStakes
    /\ pos_active_validators = PoSConsensus_new(params).active_validators
    /\ \E o \in Orders(validator_stakes) :
          active_validators =
              engine_update_validator_set(ConsensusEngine_new(params),
                                          Entries(validator_stakes, o)).active_validators
    /\ election = [op |-> "new", result |-> Ok, validator |-> NoValidator]
    /\ InitOther
    /\ node_state = "Syncing"

NextLate == Tick \/ AddTransaction \/ LoopTryProduceBlock \/ LoopAddBlock
SpecLate == InitLate /\ [][NextLate]_vars

\* C32: the block try_produce_block returns for height H, over a tip at
\* height H - 1, mints 5,000,000,000 >> floor(H / 210000) in its first
\* transaction, the coinbase transaction of the selected validator.
C32_CoinbaseIsRewardOfBlockHeight ==
    [][(LoopTryProduceBlock /\ production'.block # None) =>
          LET new_block == production'.block[1]
              H == new_block.header.height
          IN  /\ H = latest_height + 1
              /\ new_block.transactions[1].sender = COINBASE
              /\ new_block.transactions[1].amount =
                    in_units(shr(initial_reward, H \div HalvingInterval))]_vars

\* C34: when the loop calls add_block with the block try_produce_block
\* returned over an empty pool (the block holds its coinbase transaction
\* alone) and no other block was added in between (the block names the
\* tip), add_block accepts it and latest_height grows by one, at every
\* height of the tip.
C34_ProducedBlockAccepted ==
    [][(/\ LoopAddBlock
        /\ Len(production.block[1].transactions) = 1
        /\ production.block[1].header.prev_hash = latest_hash
        /\ production.block[1].header.height = latest_height + 1)
          => (chain_result' = Ok /\ latest_height' = latest_height + 1)]_vars

---------------------------------------------------------------------------
(* Claims about the arithmetic of the ledger, checked under SpecLedger64. *)

\* The sum of the balances of "a" and "b" in a state, as a number of 65
\* bits: the sum modulo 2^64 and its carry.
balance_sum64(st) == overflowing_add(get_balance64(st, "a"), get_balance64(st, "b"))

\* x <= y of two numbers of 65 bits
wide_le(x, y) ==
    \/ (~x.overflow /\ y.overflow)
    \/ (x.overflow = y.overflow /\ ~u64_lt(y.value, x.value))

\* C35: when apply_transaction returns Ok on a transfer, amount + fee does
\* not exceed 2^64 - 1, the balance of the sender is its balance before
\* less amount + fee, the balance of the recipient is its balance before
\* plus amount, without a wrap, and the sum of the balances is not greater
\* than before.
C35_TransferCreatesNoBalance ==
    [][(/\ ApplyTransaction64
        /\ ledger64'.tx[1].sender # COINBASE
        /\ ledger64'.result = Ok) =>
          LET tx == ledger64'.tx[1]
              cost == overflowing_add(tx.amount, tx.fee)
              debit == overflowing_sub(get_balance64(ledger64.st, tx.sender), cost.value)
              credit == overflowing_add(get_balance64(ledger64.st, tx.recipient), tx.amount)
          IN  /\ ~cost.overflow
              /\ ~debit.overflow
              /\ get_balance64(ledger64'.st, tx.sender) = debit.value
              /\ ~credit.overflow
              /\ get_balance64(ledger64'.st, tx.recipient) = credit.value
              /\ wide_le(balance_sum64(ledger64'.st), balance_sum64(ledger64.st))]_vars

---------------------------------------------------------------------------
(* The supply: core/src/genesis.rs.  The amounts of this section are in    *)
(* the ledger units of in_units, 2,500,000,000 base units (25 tokens);     *)
(* the maximum supply, the three allocations of the genesis block and the  *)
(* rewards of the first two halving periods are whole numbers of units.    *)

\* MAX_SUPPLY = 21_000_000 * 100_000_000 base units: 21,000,000 tokens, 25 to
\* the unit
MAX_SUPPLY == 21000000 \div 25

VALIDATOR_REWARDS_PERCENT == 20
DEVELOPMENT_FUND_PERCENT == 10
ECOSYSTEM_GROWTH_PERCENT == 10

\* create_genesis_block()
create_genesis_block ==
    Block_genesis(
        << new_coinbase("GENX_VALIDATOR_REWARDS_POOL",
                        (MAX_SUPPLY * VALIDATOR_REWARDS_PERCENT) \div 100),
           new_coinbase("GENX_DEVELOPMENT_FUND",
                        (MAX_SUPPLY * DEVELOPMENT_FUND_PERCENT) \div 100),
           new_coinbase("GENX_ECOSYSTEM_GROWTH",
                        (MAX_SUPPLY * ECOSYSTEM_GROWTH_PERCENT) \div 100) >>)

\* get_max_supply()
get_max_supply == MAX_SUPPLY

\* get_circulating_supply(blockchain): State::get_total_supply
get_circulating_supply(c) == c.st.total_supply

\* initialize_blockchain(): the chain of the genesis block
initialize_blockchain == Blockchain_new(create_genesis_block).chain

RECURSIVE minted_from(_, _)
\* What the blocks 1..height mint when each is produced by
\* try_produce_block over the block below it: the block over a tip at
\* height t mints calculate_block_reward(t), and the tips of one halving
\* period mint the same.  The sum runs over the periods from the k-th on.
minted_from(k, height) ==
    IF height <= k * HalvingInterval THEN 0
    ELSE LET last == IF height < (k + 1) * HalvingInterval THEN height
                     ELSE (k + 1) * HalvingInterval
         IN  (last - k * HalvingInterval)
                * in_units(calculate_block_reward(k * HalvingInterval))
             + minted_from(k + 1, height)

\* The height of the tip at which the supply of a chain of produced blocks
\* is the maximum supply: in the second halving period.
TipAtMaxSupply ==
    HalvingInterval
    + (MAX_SUPPLY - get_circulating_supply(initialize_blockchain)
       - minted_from(0, HalvingInterval))
         \div in_units(calculate_block_reward(HalvingInterval))

\* The heights of the tips of the runs: the genesis block, the last
\* height of the first halving period and the last two heights at which
\* the supply is within the maximum.
SupplyTipHeights == {0, HalvingInterval - 1, TipAtMaxSupply - 1, TipAtMaxSupply}

\* The chain of blocks produced by "v1" over initialize_blockchain(), when
\* its tip is at a height; the map of blocks holds the tip alone (see
\* LateTipHeights).
ProducedChain(height) ==
    IF height = 0 THEN initialize_blockchain
    ELSE LET coinbase == new_coinbase("v1", in_units(calculate_block_reward(height - 1)))
             tip == Block_new(height, OtherHash, <<coinbase>>, "v1")
             genesis == initialize_blockchain.st
         IN  [blocks |-> [h \in {height} |-> tip],
              latest_hash |-> Block_hash(tip),
              latest_height |-> height,
              st |-> [balances |-> insert(genesis.balances, "v1", minted_from(0, height)),
                      total_supply |-> genesis.total_supply + minted_from(0, height)]]

\* A node started over the chain of create_genesis_block, at the genesis
\* block or after "v1" produced the blocks up to a height.
InitSupply ==
    /\ \E height \in SupplyTipHeights :
          LET c == ProducedChain(height)
          IN  /\ blocks = c.blocks
              /\ latest_hash = c.latest_hash
              /\ latest_height = c.latest_height
              /\ balances = c.st.balances
              /\ total_supply = c.st.total_supply
    /\ chain_result = Ok
    /\ InitFinality /\ params = DefaultParams /\ InitRegistry
    /\ validator_stakes \in StartStakes
    /\ pos_active_validators = PoSConsensus_new(params).active_validators
    /\ \E o \in Orders(validator_stakes) :
          active_validators =
              engine_update_validator_set(ConsensusEngine_new(params),
                                          Entries(validator_stakes, o)).active_validators
    /\ election = [op |-> "new", result |-> Ok, validator |-> NoValidator]
    /\ InitOther
    /\ node_state = "Syncing"

\* The rest of a tick of the loop, LoopAddBlock, in runs that the clock
\* bounds and MaxSupply does not.
LoopAddBlockAnySupply ==
    /\ loop_pc = "add_block"
    /\ LET r == add_block(Chain, production.block[1])
       IN  /\ blocks' = r.chain.blocks
           /\ latest_hash' = r.chain.latest_hash
           /\ latest_height' = r.chain.latest_height
           /\ balances' = r.chain.st.balances
           /\ total_supply' = r.chain.st.total_supply
           /\ chain_result' = r.result
    /\ loop_pc' = "tick"
    /\ UNCHANGED <<pending_transactions, last_block_time, now, production,
                   submitted, returned>>
    /\ UNCHANGED <<finalityVars, params, registryVars, electionVars,
                   reward_call, lockVars, node_state, ledger64>>

\* The production loop over the chain of create_genesis_block; no other
\* caller adds a block or submits a transaction.
NextSupply == Tick \/ LoopTryProduceBlock \/ LoopAddBlockAnySupply
SpecSupply == InitSupply /\ [][NextSupply]_vars

\* C40: in every state of a chain that starts from the genesis block of
\* create_genesis_block and grows by the blocks of try_produce_block alone,
\* the circulating supply is at most the maximum supply.
C40_SupplyWithinMax == get_circulating_supply(Chain) <= get_max_supply
===========================================================================
